---- MODULE Spec2Model ----
(***************************************************************************)
(* A model of the Hazel front end: the lexer of                            *)
(* src/hazel/compiler/lexer/lexer.c and the expression parser of           *)
(* src/adorad/compiler/parser.c.                                           *)
(*                                                                         *)
(* The lexer is a state machine over one source buffer: every action is    *)
(* one iteration of the main loop of lexer_lex, with the sub-scanner it    *)
(* calls.  Characters are one-character strings; nullchar stands for the   *)
(* terminating '\0'.  Offsets are 0-based as in the C code, sequences are  *)
(* 1-based, so buffer[i] in C is buf[i + 1] here.                          *)
(***************************************************************************)
EXTENDS Integers, Sequences, FiniteSets, TLC

VARIABLES
    buf,        \* lexer->buffer, the characters before the terminating '\0'
    offset,     \* lexer->offset
    lineno,     \* lexer->lineno
    colno,      \* lexer->colno
    tokens,     \* lexer->tokenList[0 .. num_tokens - 1]
    tokenList_cap,   \* lexer->tokenList_cap
    tokenList_slots, \* the Token slots the last calloc or realloc of
                     \* lexer->tokenList obtained
    reported,   \* number of diagnostics written to stderr by lexer_lex
    pc,         \* where lexer_lex is: "start", "loop", "done", "hang", or
                \* "fault" (a write outside the token storage ended the run)
    toklist,    \* parser->toklist, the kinds of its tokens
    curr_tok,   \* parser->curr_tok, as an index into toklist (0-based)
    call,       \* the parsing function under execution and its arguments
    result,     \* what that function returned
    ppc         \* where the parser is: "idle", "ready", "returned", "diverged",
                \* "failed" (a panic was raised), "crashed" (a null pointer
                \* was dereferenced)

lexvars == <<buf, offset, lineno, colno, tokens, tokenList_cap, tokenList_slots,
             reported, pc>>
parsevars == <<toklist, curr_tok, call, result, ppc>>
vars == <<buf, offset, lineno, colno, tokens, tokenList_cap, tokenList_slots,
          reported, pc, toklist, curr_tok, call, result, ppc>>

-----------------------------------------------------------------------------
(* Bounds of the model *)

\* longest source buffer (not counting a leading BOM)
MaxLen == 3

\* the slots lexer_init asks for; more than the tokens of any buffer of the
\* lexer specifications below, fewer than the tokens of TokenListSpec
TOKENLIST_ALLOC_SIZE == 8

\* the characters source buffers are made of: whitespace, a letter, digits,
\* the quote and the backslash, operators of one, two and three characters,
\* the comment characters and a character the lexer does not know
Alphabet == {" ", "\n", "a", "1", "0", "\"", "\\", ";", "#", "!", "=", "<",
             ".", "/", "*", "$"}

\* the UTF-8 byte order mark
BOM == <<"xEF", "xBB", "xBF">>

\* what a read before the start of the buffer may yield
StrayChars == {"a", "$"}

RECURSIVE SeqsUpTo(_, _)
SeqsUpTo(S, n) ==
    IF n = 0 THEN {<<>>}
    ELSE LET shorter == SeqsUpTo(S, n - 1)
         IN  shorter \cup {Append(s, c) : s \in {t \in shorter : Len(t) = n - 1}, c \in S}

-----------------------------------------------------------------------------
(* Characters *)

nullchar == "NUL"

\* buffer[i]: the buffer is NUL-terminated, buffer_capacity = strlen(buffer).
\* A read past the terminator only happens for `next` when `curr` is already
\* nullchar, where the value read is never used.
CharAt(b, i) == IF i >= 0 /\ i < Len(b) THEN b[i + 1] ELSE nullchar

DIGIT_NON_ZERO == {"1", "2", "3", "4", "5", "6", "7", "8", "9"}
ALPHA == {"a", "b", "c", "d", "e", "f", "g", "h", "i", "j", "k", "l", "m",
          "n", "o", "p", "q", "r", "s", "t", "u", "v", "w", "x", "y", "z",
          "A", "B", "C", "D", "E", "F", "G", "H", "I", "J", "K", "L", "M",
          "N", "O", "P", "Q", "R", "S", "T", "U", "V", "W", "X", "Y", "Z"}
WHITESPACE_NO_NEWLINE == {" ", "\r", "\t"}

isLetter(ch) == ch \in ALPHA \cup {"_"}
isDigit(ch) == ch \in DIGIT_NON_ZERO \cup {"0"}

\* substr(dest, src, start, len): len characters of src from index start.
\* An index before the buffer reads a byte that is not part of the source.
Substr(b, start, len, stray) ==
    [k \in 1..len |-> IF start + k - 1 < 0 THEN stray ELSE CharAt(b, start + k - 1)]

-----------------------------------------------------------------------------
(* The lexer's position: a record [offset, lineno, colno] threaded through  *)
(* the helpers, which return the new position (and the character read).    *)

Pos(o, l, c) == [offset |-> o, lineno |-> l, colno |-> c]

LEXER_INCREMENT_COLNO(s) == [s EXCEPT !.colno = @ + 1]
LEXER_INCREMENT_LINENO(s) == [s EXCEPT !.lineno = @ + 1]
LEXER_RESET_COLNO(s) == [s EXCEPT !.colno = 1]
LEXER_INCREMENT_OFFSET(s) == LEXER_INCREMENT_COLNO([s EXCEPT !.offset = @ + 1])

lexer_advance(b, s) ==
    IF s.offset >= Len(b)
    THEN [ch |-> nullchar, s |-> s]
    ELSE [ch |-> b[s.offset + 1],
          s  |-> [LEXER_INCREMENT_COLNO(s) EXCEPT !.offset = @ + 1]]

lexer_advancen(b, s, n) ==
    IF s.offset + n >= Len(b)
    THEN s
    ELSE [s EXCEPT !.colno = @ + n, !.offset = @ + n]

lexer_peek(b, s) == CharAt(b, s.offset)

-----------------------------------------------------------------------------
(* Tokens *)

Token(kind, s, value) ==
    [kind |-> kind, offset |-> s.offset, colno |-> s.colno,
     lineno |-> s.lineno, value |-> value]

\* token_toString(kind): the canonical text of a kind, here the kind's name
token_toString(kind) == <<kind>>

lexer_maketoken(s, kind) == Token(kind, s, token_toString(kind))

\* lexer_makestrtoken without `token->offset = lexer->offset`: the offset
\* stays the 0 of calloc
lexer_makestrtoken_OffsetUnset(s, str_value) ==
    Token("STRING", [s EXCEPT !.offset = 0], str_value)

lexer_makestrtoken(s, str_value) == Token("STRING", s, str_value)

lexer_makeidenttoken(s, ident_value) == Token("IDENTIFIER", s, ident_value)

-----------------------------------------------------------------------------
(* Sub-scanners.  Each is entered after the main loop has consumed `curr`.  *)

RECURSIVE SlCommentLoop(_, _)
SlCommentLoop(b, r) ==
    IF r.ch # nullchar /\ r.ch # "\n"
    THEN SlCommentLoop(b, lexer_advance(b, r.s))
    ELSE r.s

lexer_lex_sl_comment(b, s) == SlCommentLoop(b, lexer_advance(b, s))

RECURSIVE MlSkipToAsterisk(_, _)
MlSkipToAsterisk(b, r) ==
    IF r.ch # nullchar /\ r.ch # "*"
    THEN MlSkipToAsterisk(b, lexer_advance(b, r.s))
    ELSE r

RECURSIVE MlCommentLoop(_, _, _)
MlCommentLoop(b, r, asterisk_found) ==
    IF r.ch # nullchar /\ ~(r.ch = "/" /\ asterisk_found)
    THEN LET q == MlSkipToAsterisk(b, r)
         IN  MlCommentLoop(b, lexer_advance(b, q.s), q.ch = "*")
    ELSE r.s

lexer_lex_ml_comment(b, s) ==
    lexer_advance(b, MlCommentLoop(b, lexer_advance(b, s), FALSE)).s

RECURSIVE IdentLoop(_, _)
IdentLoop(b, r) ==
    IF isLetter(r.ch) \/ isDigit(r.ch)
    THEN IdentLoop(b, lexer_advance(b, r.s))
    ELSE r.s

\* the position after the identifier and the token made there
lexer_lex_identifier(b, s, stray) ==
    LET first == lexer_advance(b, s)
        prev_offset == first.s.offset - 1
        after == IdentLoop(b, first)
        offset_diff == after.offset - prev_offset
        ident == Substr(b, prev_offset - 1, offset_diff, stray)
    IN  [s |-> after, toks |-> <<lexer_makeidenttoken(after, ident)>>]

RECURSIVE DigitLoop(_, _)
DigitLoop(b, r) ==
    IF isDigit(r.ch)
    THEN DigitLoop(b, lexer_advance(b, r.s))
    ELSE r.s

lexer_lex_digit(b, s) ==
    LET after == DigitLoop(b, [ch |-> lexer_peek(b, s), s |-> s])
    IN  [s |-> after, toks |-> <<lexer_maketoken(after, "INTEGER")>>]

\* The loop of lexer_lex_string ends only on a closing quote: at the end of
\* the buffer lexer_advance keeps returning nullchar, and after a backslash
\* lexer_lex_esc_char consumes nothing, so in both cases it never ends.
RECURSIVE StringLoop(_, _)
StringLoop(b, r) ==
    IF r.ch = "\"" THEN [hang |-> FALSE, s |-> r.s]
    ELSE IF r.ch = "\\" \/ r.s.offset >= Len(b) THEN [hang |-> TRUE, s |-> r.s]
    ELSE StringLoop(b, lexer_advance(b, r.s))

lexer_lex_string(b, s) ==
    LET first == lexer_advance(b, s)
        prev_offset == first.s.offset - 1
        scan == StringLoop(b, first)
        offset_diff == scan.s.offset - prev_offset
        str_value == Substr(b, prev_offset, offset_diff - 1, nullchar)
    IN  [hang |-> scan.hang, s |-> scan.s,
         toks |-> IF scan.hang THEN <<>> ELSE <<lexer_makestrtoken(scan.s, str_value)>>]

-----------------------------------------------------------------------------
(* The operator and punctuator cases of the switch of lexer_lex *)

\* cases that set tokenkind and consume nothing more
SingleCharKinds ==
    { <<";", "SEMICOLON">>, <<",", "COMMA">>, <<"\\", "BACKSLASH">>,
      <<"[", "LSQUAREBRACK">>, <<"]", "RSQUAREBRACK">>, <<"{", "LBRACE">>,
      <<"}", "RBRACE">>, <<"(", "LPAREN">>, <<")", "RPAREN">>,
      <<"?", "QUESTION">>, <<"@", "MACRO">> }

\* the `default:` of each inner switch(next)
DefaultKinds ==
    { <<"=", "EQUALS">>, <<"+", "PLUS">>, <<"-", "MINUS">>, <<"*", "MULT">>,
      <<"/", "SLASH">>, <<"!", "MINUS_MINUS">>, <<"%", "MOD">>, <<"&", "AND">>,
      <<"|", "OR">>, <<"^", "XOR">>, <<"<", "LESS_THAN">>,
      <<">", "GREATER_THAN">>, <<"~", "TILDA">>, <<".", "DOT">>,
      <<":", "COLON">> }

\* the cases of the inner switch(next) that consume `next` and set tokenkind
TwoCharKinds ==
    { <<"=", "=", "EQUALS_EQUALS">>, <<"=", ">", "EQUALS_ARROW">>,
      <<"+", "+", "PLUS_PLUS">>, <<"+", "=", "PLUS_EQUALS">>,
      <<"-", "-", "MINUS_MINUS">>, <<"-", "=", "MINUS_EQUALS">>,
      <<"-", ">", "RARROW">>,
      <<"*", "*", "MULT_MULT">>, <<"*", "=", "MULT_EQUALS">>,
      <<"/", "=", "SLASH_EQUALS">>,
      <<"!", "=", "EXCLAMATION_EQUALS">>,
      <<"%", "%", "MOD_MOD">>, <<"%", "=", "MOD_EQUALS">>,
      <<"&", "&", "AND_AND">>, <<"&", "^", "AND_NOT">>, <<"&", "=", "AND_EQUALS">>,
      <<"|", "|", "OR_OR">>, <<"|", "=", "OR_EQUALS">>,
      <<"^", "=", "XOR_EQUALS">>,
      <<"<", "=", "LESS_THAN_OR_EQUAL_TO">>, <<"<", "-", "LARROW">>,
      <<">", "=", "GREATER_THAN_OR_EQUAL_TO">>,
      <<"~", "=", "TILDA_EQUALS">>,
      <<":", ":", "COLON_COLON">> }

\* the cases that consume `next`, peek again and choose between two kinds:
\* <<curr, next, third, kind with third, kind without>>
ThreeCharKinds ==
    { <<"<", "<", "=", "LBITSHIFT_EQUALS", "LBITSHIFT">>,
      <<">", ">", "=", "RBITSHIFT_EQUALS", "RBITSHIFT">>,
      <<".", ".", ".", "ELLIPSIS", "DDOT">> }

SingleChars == {e[1] : e \in SingleCharKinds}
OperatorChars == {e[1] : e \in DefaultKinds}

\* the two comment openers are cases of switch(next) under '/'
IsCommentStart(curr, next) == curr = "/" /\ next \in {"/", "*"}

\* tokenkind and position after the case of `curr` (s: position after curr)
LexOperator(b, s, curr, next) ==
    IF curr = "#"
    THEN [kind |-> "HASH_SIGN", s |-> LEXER_INCREMENT_OFFSET(s)]
    ELSE IF curr \in SingleChars
    THEN [kind |-> (CHOOSE e \in SingleCharKinds : e[1] = curr)[2], s |-> s]
    ELSE IF \E e \in ThreeCharKinds : e[1] = curr /\ e[2] = next
    THEN LET e == CHOOSE x \in ThreeCharKinds : x[1] = curr /\ x[2] = next
             s2 == LEXER_INCREMENT_OFFSET(s)
         IN  IF lexer_peek(b, s2) = e[3]
             THEN [kind |-> e[4], s |-> LEXER_INCREMENT_OFFSET(s2)]
             ELSE [kind |-> e[5], s |-> s2]
    ELSE IF \E e \in TwoCharKinds : e[1] = curr /\ e[2] = next
    THEN [kind |-> (CHOOSE e \in TwoCharKinds : e[1] = curr /\ e[2] = next)[3],
          s |-> LEXER_INCREMENT_OFFSET(s)]
    ELSE [kind |-> (CHOOSE e \in DefaultKinds : e[1] = curr)[2], s |-> s]

-----------------------------------------------------------------------------
(* lexer_lex *)

Here == Pos(offset, lineno, colno)

\* curr = lexer_advance(lexer); next = lexer_peek(lexer);
Adv == lexer_advance(buf, Here)
Curr == Adv.ch
NextCh == lexer_peek(buf, Adv.s)

\* the token list of the lexer; `inside` tells whether every write so far
\* went to a slot of the storage
TokenList ==
    [tokenList |-> tokens, tokenList_cap |-> tokenList_cap, slots |-> tokenList_slots,
     inside |-> TRUE]

\* lexer_tokenlist_append, with num_tokens the length of the list.  The
\* realloc asks for 2 * TOKENLIST_ALLOC_SIZE slots whatever the capacity is.
lexer_tokenlist_append(l, token) ==
    LET grow == Len(l.tokenList) >= l.tokenList_cap
        slots == IF grow THEN 2 * TOKENLIST_ALLOC_SIZE ELSE l.slots
    IN  [tokenList |-> Append(l.tokenList, token),
         tokenList_cap |-> IF grow THEN l.tokenList_cap + TOKENLIST_ALLOC_SIZE
                           ELSE l.tokenList_cap,
         slots |-> slots,
         inside |-> l.inside /\ Len(l.tokenList) < slots]

\* the appends of the tokens an iteration makes, in order
RECURSIVE AppendAll(_, _)
AppendAll(l, toks) ==
    IF toks = <<>> THEN l
    ELSE AppendAll(lexer_tokenlist_append(l, Head(toks)), Tail(toks))

\* the end of an iteration: the lexer at position s, toks appended.  After a
\* write outside the storage the run goes on or ends there.
Emit(s, toks, newpc) ==
    LET l == AppendAll(TokenList, toks)
    IN  /\ offset' = s.offset
        /\ lineno' = s.lineno
        /\ colno' = s.colno
        /\ tokens' = l.tokenList
        /\ tokenList_cap' = l.tokenList_cap
        /\ tokenList_slots' = l.slots
        /\ pc' \in IF l.inside THEN {newpc} ELSE {newpc, "fault"}
        /\ UNCHANGED <<buf, toklist, curr_tok, call, result, ppc>>

HasBOM(b) == CharAt(b, 0) = BOM[1] /\ CharAt(b, 1) = BOM[2] /\ CharAt(b, 2) = BOM[3]

\* the BOM check that opens lexer_lex
LexBOM ==
    /\ pc = "start"
    /\ Emit(IF HasBOM(buf) THEN lexer_advancen(buf, Here, 3) ELSE Here, <<>>, "loop")
    /\ UNCHANGED reported

\* case nullchar: goto lex_eof
LexEOF ==
    /\ pc = "loop"
    /\ Curr = nullchar
    /\ Emit(Adv.s, <<lexer_maketoken(Adv.s, "TOK_EOF")>>, "done")
    /\ UNCHANGED reported

LexWhitespace ==
    /\ pc = "loop"
    /\ Curr \in WHITESPACE_NO_NEWLINE
    /\ Emit(Adv.s, <<>>, "loop")
    /\ UNCHANGED reported

LexNewline ==
    /\ pc = "loop"
    /\ Curr = "\n"
    /\ Emit(LEXER_RESET_COLNO(LEXER_INCREMENT_LINENO(Adv.s)), <<>>, "loop")
    /\ UNCHANGED reported

LexIdentifier ==
    /\ pc = "loop"
    /\ Curr \in ALPHA \cup {"_"}
    /\ \E stray \in StrayChars :
          \* the byte before the buffer is read only by substr(.., -1, ..)
          /\ (Adv.s.offset < Len(buf) \/ Adv.s.offset > 1 => stray = "a")
          /\ LET r == lexer_lex_identifier(buf, Adv.s, stray)
             IN  Emit(r.s, r.toks, "loop")
    /\ UNCHANGED reported

LexDigit ==
    /\ pc = "loop"
    /\ Curr \in DIGIT_NON_ZERO
    /\ LET r == lexer_lex_digit(buf, Adv.s)
       IN  Emit(r.s, r.toks, "loop")
    /\ UNCHANGED reported

\* case '"' with next = '"': tokenkind is still TOK_ILLEGAL after the switch
LexEmptyString ==
    /\ pc = "loop"
    /\ Curr = "\"" /\ NextCh = "\""
    /\ LET s == LEXER_INCREMENT_OFFSET(Adv.s)
       IN  Emit(s, <<lexer_makestrtoken(s, <<"\"", "\"">>),
                     lexer_maketoken(s, "TOK_ILLEGAL")>>, "loop")
    /\ UNCHANGED reported

LexString ==
    /\ pc = "loop"
    /\ Curr = "\"" /\ NextCh # "\""
    /\ LET r == lexer_lex_string(buf, Adv.s)
       IN  Emit(r.s, r.toks, IF r.hang THEN "hang" ELSE "loop")
    /\ UNCHANGED reported

LexComment ==
    /\ pc = "loop"
    /\ IsCommentStart(Curr, NextCh)
    /\ Emit(IF NextCh = "/" THEN lexer_lex_sl_comment(buf, Adv.s)
                            ELSE lexer_lex_ml_comment(buf, Adv.s), <<>>, "loop")
    /\ UNCHANGED reported

LexPunctuator ==
    /\ pc = "loop"
    /\ Curr \in SingleChars \cup OperatorChars \cup {"#"}
    /\ ~IsCommentStart(Curr, NextCh)
    /\ LET r == LexOperator(buf, Adv.s, Curr, NextCh)
       IN  Emit(r.s, <<lexer_maketoken(r.s, r.kind)>>, "loop")
    /\ UNCHANGED reported

\* default: the message goes to stderr, the switch ends with tokenkind still
\* TOK_ILLEGAL, and the loop goes on
LexInvalidChar ==
    /\ pc = "loop"
    /\ Curr # nullchar
    /\ Curr \notin WHITESPACE_NO_NEWLINE \cup {"\n", "_", "\"", "#"}
                   \cup ALPHA \cup DIGIT_NON_ZERO \cup SingleChars \cup OperatorChars
    /\ Emit(Adv.s, <<lexer_maketoken(Adv.s, "TOK_ILLEGAL")>>, "loop")
    /\ reported' = reported + 1

Buffers == {bom \o body : bom \in {<<>>, BOM}, body \in SeqsUpTo(Alphabet, MaxLen)}

\* lexer_init
Init ==
    /\ buf \in Buffers
    /\ offset = 0
    /\ lineno = 1
    /\ colno = 1
    /\ tokens = <<>>
    /\ tokenList_cap = TOKENLIST_ALLOC_SIZE
    /\ tokenList_slots = TOKENLIST_ALLOC_SIZE
    /\ reported = 0
    /\ pc = "start"
    /\ toklist = <<>>
    /\ curr_tok = 0
    /\ call = <<>>
    /\ result = <<>>
    /\ ppc = "idle"

Next ==
    \/ LexBOM
    \/ LexEOF
    \/ LexWhitespace
    \/ LexNewline
    \/ LexIdentifier
    \/ LexDigit
    \/ LexEmptyString
    \/ LexString
    \/ LexComment
    \/ LexPunctuator
    \/ LexInvalidChar

Spec == Init /\ [][Next]_vars

-----------------------------------------------------------------------------
(* The expression parser.  A parsing function is an operator from the token *)
(* kinds and the cursor to [st, node, cur]: st is "ok" when the function     *)
(* returns (node is what it returns, Null for a null pointer, cur the new   *)
(* cursor) and "diverge" when it never returns.                            *)

\* most tokens of a token list handed to the parser, not counting TOK_EOF
MaxToks == 5

\* the token kinds those lists are made of
ParserKinds == {"IDENTIFIER", "INTEGER", "PLUS", "MINUS", "MULT",
                "EQUALS_EQUALS", "AND", "OR"}

TokenLists == {body \o <<"TOK_EOF">> : body \in SeqsUpTo(ParserKinds, MaxToks)}

BinaryOpChainOnce == "BinaryOpChainOnce"
BinaryOpChainInfinity == "BinaryOpChainInfinity"

\* <<tok_kind, prec_value, bin_kind>>
precedence_table ==
    { <<"MULT", 60, "BinaryOpKindMult">>,
      <<"MOD", 60, "BinaryOpKindMod">>,
      <<"SLASH", 60, "BinaryOpKindDiv">>,
      <<"PLUS", 50, "BinaryOpKindAdd">>,
      <<"MINUS", 50, "BinaryOpKindSubtract">>,
      <<"PLUS_EQUALS", 50, "BinaryOpKindAssignmentPlus">>,
      <<"MINUS_EQUALS", 50, "BinaryOpKindAssignmentMinus">>,
      <<"LBITSHIFT", 40, "BinaryOpKindBitshitLeft">>,
      <<"RBITSHIFT", 40, "BinaryOpKindBitshitRight">>,
      <<"EQUALS_EQUALS", 30, "BinaryOpKindCmpEqual">>,
      <<"EXCLAMATION_EQUALS", 30, "BinaryOpKindCmpNotEqual">>,
      <<"GREATER_THAN", 30, "BinaryOpKindCmpGreaterThan">>,
      <<"LESS_THAN", 30, "BinaryOpKindCmpLessThan">>,
      <<"GREATER_THAN_OR_EQUAL_TO", 30, "BinaryOpKindCmpGreaterThanorEqualTo">>,
      <<"LESS_THAN_OR_EQUAL_TO", 30, "BinaryOpKindCmpLessThanorEqualTo">>,
      <<"AND", 20, "BinaryOpKindBoolAnd">>,
      <<"OR", 10, "BinaryOpKindBoolOr">> }

Null == [kind |-> "null"]

ast_create_node(kind) == [kind |-> kind]

\* a BinaryOpExpr node as an operator parser leaves it: op set, no operands
BinaryOpNode(op) ==
    [kind |-> "AstNodeKindBinaryOpExpr", op |-> op, lhs |-> Null, rhs |-> Null]

Returns(node, cur) == [st |-> "ok", node |-> node, cur |-> cur]
Diverges(cur) == [st |-> "diverge", node |-> Null, cur |-> cur]

\* panic(kind, message): the parse ends with the error
Panic(kind, msg) == [kind |-> kind, msg |-> msg]
Fails(err, cur) == [st |-> "error", node |-> Null, cur |-> cur, err |-> err]

\* a member is read or written through a null pointer
Crashes(cur) == [st |-> "crash", node |-> Null, cur |-> cur]

\* the value a call returned, named for the code after the call
With(v, K(_)) == K(v)

parser_peek_token(toks, cur) == toks[cur + 1]

\* the token consumed (its index) and the cursor after it
parser_chomp(toks, cur) == [tok |-> cur, cur |-> cur + 1]

\* parser_chomp_if without its test of the kind: it consumes whatever token
\* is current
parser_chomp_if_NoTest(toks, cur, tokenkind) == parser_chomp(toks, cur)

\* tok = -1 stands for the null it returns when the kind does not match
parser_chomp_if(toks, cur, tokenkind) ==
    IF parser_peek_token(toks, cur) = tokenkind
    THEN parser_chomp(toks, cur)
    ELSE [tok |-> -1, cur |-> cur]

\* the operator parsers: chomp one operator token of the tier, return a
\* BinaryOpExpr node with `op` set, or null when no such token is current
OpParserPrec ==
    { <<"ast_parse_multiplication_op", 60>>, <<"ast_parse_addition_op", 50>>,
      <<"ast_parse_bitshift_op", 40>>, <<"ast_parse_comparison_op", 30>>,
      <<"ast_parse_boolean_and_op", 20>>, <<"ast_parse_boolean_or_op", 10>> }

OpParsers == {e[1] : e \in OpParserPrec} \cup {"ast_parse_bitwise_op"}

\* the entries of precedence_table an operator parser accepts; the table has
\* no entry for a bitwise operator
OpEntries(op_parser) ==
    {e \in precedence_table :
        \E p \in OpParserPrec : p[1] = op_parser /\ p[2] = e[2]}

ParseOp(op_parser, toks, cur) ==
    LET hit == {e \in OpEntries(op_parser) : parser_chomp_if(toks, cur, e[1]).tok # -1}
    IN  IF hit = {}
        THEN Returns(Null, cur)
        ELSE Returns(BinaryOpNode((CHOOSE e \in hit : TRUE)[3]), cur + 1)

ast_parse_boolean_and_op(toks, cur) ==
    IF parser_chomp_if(toks, cur, "AND").tok = -1
    THEN Returns(Null, cur)
    ELSE Returns(BinaryOpNode("BinaryOpKindBoolAnd"), cur + 1)

ast_parse_boolean_or_op(toks, cur) ==
    IF parser_chomp_if(toks, cur, "OR").tok = -1
    THEN Returns(Null, cur)
    ELSE Returns(BinaryOpNode("BinaryOpKindBoolOr"), cur + 1)

\* AssignmentOp: of the operators the comment of ast_parse_assignment_expr
\* lists, the token lists of this model hold EQUALS
ast_parse_assignment_op(toks, cur) ==
    IF parser_chomp_if(toks, cur, "EQUALS").tok = -1
    THEN Returns(Null, cur)
    ELSE Returns(BinaryOpNode("BinaryOpKindAssignmentEqual"), cur + 1)

op_parser_call(op_parser, toks, cur) ==
    CASE op_parser = "ast_parse_boolean_and_op" -> ast_parse_boolean_and_op(toks, cur)
      [] op_parser = "ast_parse_boolean_or_op" -> ast_parse_boolean_or_op(toks, cur)
      [] op_parser = "ast_parse_assignment_op" -> ast_parse_assignment_op(toks, cur)
      [] OTHER -> ParseOp(op_parser, toks, cur)

\* the alternatives of ast_parse_primary_type_expr that chomp one token, in
\* the order they are tried: <<token kind, node kind>>
PrimaryTypeTokens ==
    << <<"CHAR", "AstNodeKindCharLiteral">>,
       <<"FLOAT_LIT", "AstNodeKindFloatLiteral">>,
       <<"IDENTIFIER", "AstNodeKindIdentifier">>,
       <<"INTEGER", "AstNodeKindIntLiteral">>,
       <<"TOK_TRUE", "AstNodeKindBoolLiteral">>,
       <<"UNREACHABLE", "AstNodeKindUnreachable">>,
       <<"STRING", "AstNodeKindStringLiteral">> >>

RECURSIVE ast_parse_func_prototype(_, _)
RECURSIVE ast_parse_if_type_expr(_, _)

\* ast_parse_func_prototype and ast_parse_if_type_expr return null at their
\* first chomp_if unless the current token is FUNC or IF, so each of the
\* alternatives is decided by the kind of the current token.
\* ast_parse_match_expr returns null unless the current token is MATCH, a
\* kind that the token lists of this model do not hold.
ast_parse_primary_type_expr(toks, cur) ==
    LET hit == {i \in DOMAIN PrimaryTypeTokens :
                   parser_chomp_if(toks, cur, PrimaryTypeTokens[i][1]).tok # -1}
    IN  IF parser_peek_token(toks, cur) = "FUNC"
        THEN ast_parse_func_prototype(toks, cur)
        ELSE IF parser_peek_token(toks, cur) = "IF"
        THEN ast_parse_if_type_expr(toks, cur)
        ELSE IF hit = {}
        THEN Returns(Null, cur)
        ELSE LET first == CHOOSE i \in hit : \A j \in hit : i <= j
             IN  Returns(ast_create_node(PrimaryTypeTokens[first][2]), cur + 1)

\* the tier functions: the arguments each passes to ast_parse_binary_op_expr
ast_parse_bool_and_expr ==
    [chain |-> BinaryOpChainInfinity, op_parser |-> "ast_parse_boolean_and_op",
     child_parser |-> "ast_parse_bool_or_expr"]
ast_parse_bool_or_expr ==
    [chain |-> BinaryOpChainInfinity, op_parser |-> "ast_parse_boolean_or_op",
     child_parser |-> "ast_parse_comparison_expr"]
ast_parse_comparison_expr ==
    [chain |-> BinaryOpChainOnce, op_parser |-> "ast_parse_comparison_op",
     child_parser |-> "ast_parse_bitwise_expr"]
ast_parse_bitwise_expr ==
    [chain |-> BinaryOpChainInfinity, op_parser |-> "ast_parse_bitwise_op",
     child_parser |-> "ast_parse_bitshift_expr"]
ast_parse_bitshift_expr ==
    [chain |-> BinaryOpChainInfinity, op_parser |-> "ast_parse_bitshift_op",
     child_parser |-> "ast_parse_addition_expr"]
ast_parse_addition_expr ==
    [chain |-> BinaryOpChainInfinity, op_parser |-> "ast_parse_addition_op",
     child_parser |-> "ast_parse_multiplication_expr"]
ast_parse_multiplication_expr ==
    [chain |-> BinaryOpChainInfinity, op_parser |-> "ast_parse_multiplication_op",
     child_parser |-> "ast_parse_bitwise_expr"]

TierFunctions ==
    {"ast_parse_bool_and_expr", "ast_parse_bool_or_expr", "ast_parse_comparison_expr",
     "ast_parse_bitwise_expr", "ast_parse_bitshift_expr", "ast_parse_addition_expr",
     "ast_parse_multiplication_expr"}

TierArgs(fn) ==
    CASE fn = "ast_parse_bool_and_expr" -> ast_parse_bool_and_expr
      [] fn = "ast_parse_bool_or_expr" -> ast_parse_bool_or_expr
      [] fn = "ast_parse_comparison_expr" -> ast_parse_comparison_expr
      [] fn = "ast_parse_bitwise_expr" -> ast_parse_bitwise_expr
      [] fn = "ast_parse_bitshift_expr" -> ast_parse_bitshift_expr
      [] fn = "ast_parse_addition_expr" -> ast_parse_addition_expr
      [] fn = "ast_parse_multiplication_expr" -> ast_parse_multiplication_expr

RECURSIVE parser_call(_, _, _, _)
RECURSIVE ast_parse_expr(_, _)
RECURSIVE BinaryOpLoop(_, _, _, _, _, _, _)
RECURSIVE BinaryOpLoop_AlwaysRepeats(_, _, _, _, _, _, _)

\* the loop with `while(true)` for `while(chain == BinaryOpChainInfinity)`
BinaryOpLoop_AlwaysRepeats(toks, out, cur, chain, op_parser, child_parser, active) ==
    LET op == op_parser_call(op_parser, toks, cur)
    IN  IF op.node = Null
        THEN Returns(out, cur)
        ELSE LET right == parser_call(child_parser, toks, op.cur, active)
                 new == [op.node EXCEPT !.lhs = out, !.rhs = right.node]
             IN  IF right.st # "ok" THEN right
                 ELSE BinaryOpLoop_AlwaysRepeats(toks, new, right.cur, chain,
                                                 op_parser, child_parser, active)

\* the do ... while of ast_parse_binary_op_expr, entered with `out` and the
\* cursor after it
BinaryOpLoop(toks, out, cur, chain, op_parser, child_parser, active) ==
    LET op == op_parser_call(op_parser, toks, cur)
    IN  IF op.node = Null
        THEN Returns(out, cur)
        ELSE LET right == parser_call(child_parser, toks, op.cur, active)
                 new == [op.node EXCEPT !.lhs = out, !.rhs = right.node]
             IN  IF right.st # "ok" THEN right
                 ELSE IF chain = BinaryOpChainInfinity
                 THEN BinaryOpLoop(toks, new, right.cur, chain, op_parser,
                                   child_parser, active)
                 ELSE Returns(new, right.cur)

ast_parse_binary_op_expr(toks, cur, chain, op_parser, child_parser, active) ==
    LET out == parser_call(child_parser, toks, cur, active)
    IN  IF out.st # "ok" \/ out.node = Null
        THEN out
        ELSE BinaryOpLoop(toks, out.node, out.cur, chain, op_parser, child_parser, active)

\* A call of the parsing function fn at cursor cur.  `active` holds the calls
\* <<function, cursor>> that are waiting for this one to return: a function
\* entered again at the cursor it is already waiting at repeats the same
\* calls without end, as what it does depends on the cursor alone.
parser_call(fn, toks, cur, active) ==
    IF <<fn, cur>> \in active
    THEN Diverges(cur)
    ELSE IF fn = "ast_parse_primary_type_expr"
    THEN ast_parse_primary_type_expr(toks, cur)
    ELSE IF fn = "ast_parse_expr"
    THEN ast_parse_expr(toks, cur)
    ELSE LET a == TierArgs(fn)
         IN  ast_parse_binary_op_expr(toks, cur, a.chain, a.op_parser,
                                      a.child_parser, active \cup {<<fn, cur>>})

\* the call c made on the token list ends as r
Run(c, r) ==
    /\ ppc = "ready"
    /\ call' = c
    /\ result' = IF r.st = "error" THEN r.err ELSE r.node
    /\ curr_tok' = r.cur
    /\ ppc' = CASE r.st = "ok" -> "returned"
                [] r.st = "diverge" -> "diverged"
                [] r.st = "error" -> "failed"
                [] r.st = "crash" -> "crashed"
    /\ UNCHANGED <<toklist, buf, offset, lineno, colno, tokens, tokenList_cap,
                   tokenList_slots, reported, pc>>

TierCall(fn) == [fn |-> fn] @@ TierArgs(fn)

ParseBoolAndExpr ==
    Run(TierCall("ast_parse_bool_and_expr"),
        parser_call("ast_parse_bool_and_expr", toklist, curr_tok, {}))
ParseBoolOrExpr ==
    Run(TierCall("ast_parse_bool_or_expr"),
        parser_call("ast_parse_bool_or_expr", toklist, curr_tok, {}))
ParseComparisonExpr ==
    Run(TierCall("ast_parse_comparison_expr"),
        parser_call("ast_parse_comparison_expr", toklist, curr_tok, {}))
ParseBitwiseExpr ==
    Run(TierCall("ast_parse_bitwise_expr"),
        parser_call("ast_parse_bitwise_expr", toklist, curr_tok, {}))
ParseBitshiftExpr ==
    Run(TierCall("ast_parse_bitshift_expr"),
        parser_call("ast_parse_bitshift_expr", toklist, curr_tok, {}))
ParseAdditionExpr ==
    Run(TierCall("ast_parse_addition_expr"),
        parser_call("ast_parse_addition_expr", toklist, curr_tok, {}))
ParseMultiplicationExpr ==
    Run(TierCall("ast_parse_multiplication_expr"),
        parser_call("ast_parse_multiplication_expr", toklist, curr_tok, {}))

\* the chain mode and operator parser of each tier, as the tier functions
\* pass them (the tiers whose operators the token lists hold)
TierModes ==
    {<<TierArgs(fn).chain, TierArgs(fn).op_parser>> :
        fn \in {f \in TierFunctions :
                   \E e \in OpEntries(TierArgs(f).op_parser) : e[1] \in ParserKinds}}

\* ast_parse_binary_op_expr on its own: with the chain mode and the operator
\* parser of a tier, and the parser of primary expressions for its operands
ParseBinaryOpExpr ==
    \E m \in TierModes :
        Run([fn |-> "ast_parse_binary_op_expr", chain |-> m[1], op_parser |-> m[2],
             child_parser |-> "ast_parse_primary_type_expr"],
            ast_parse_binary_op_expr(toklist, curr_tok, m[1], m[2],
                                     "ast_parse_primary_type_expr", {}))

\* parser_init on a token list
ParserInit ==
    /\ toklist \in TokenLists
    /\ curr_tok = 0
    /\ call = <<>>
    /\ result = Null
    /\ ppc = "ready"
    /\ buf = <<>>
    /\ offset = 0
    /\ lineno = 1
    /\ colno = 1
    /\ tokens = <<>>
    /\ tokenList_cap = TOKENLIST_ALLOC_SIZE
    /\ tokenList_slots = TOKENLIST_ALLOC_SIZE
    /\ reported = 0
    /\ pc = "idle"

\* the tier functions as the parser wires them
ParserNext ==
    \/ ParseBoolAndExpr
    \/ ParseBoolOrExpr
    \/ ParseComparisonExpr
    \/ ParseBitwiseExpr
    \/ ParseBitshiftExpr
    \/ ParseAdditionExpr
    \/ ParseMultiplicationExpr

ParserSpec == ParserInit /\ [][ParserNext]_vars

\* the generic routine called on its own
BinaryOpNext == ParseBinaryOpExpr

BinaryOpSpec == ParserInit /\ [][BinaryOpNext]_vars

-----------------------------------------------------------------------------
(* Declarations and statements.  A token of the list is named by its index; *)
(* a node field that the code sets from token->value holds that index.      *)

\* most parameters of a function prototype handed to the parser
MaxParams == 2

\* [st, tok, cur]: the token consumed, or the panic of a mismatch
parser_expect_token(toks, cur, tokenkind) ==
    IF parser_peek_token(toks, cur) = tokenkind
    THEN [st |-> "ok", tok |-> cur, cur |-> cur + 1]
    ELSE [st |-> "error", tok |-> -1, cur |-> cur,
          err |-> Panic("ErrorUnexpectedToken", "Expected ...; got ...")]

\* ast_clone_node(node): a new node of the kind of `node`
ast_clone_node(node, cur) ==
    IF node = Null
    THEN Fails(Panic("ErrorUnexpectedNull", "Trying to clone a null AstNode?"), cur)
    ELSE Returns(ast_create_node(node.kind), cur)

RECURSIVE ast_parse_type_expr(_, _)
RECURSIVE ast_parse_suffix_expr(_, _)
RECURSIVE ast_parse_statement(_, _, _, _)
RECURSIVE ast_parse_block(_, _, _, _)

\* SuffixOp: a suffix operator starts with `[` or `.`, kinds that the token
\* lists of this model do not hold
ast_parse_suffix_op(toks, cur) == Returns(Null, cur)

\* FuncCallArgs: LPAREN (Expr (COMMA Expr)*)? RPAREN
RECURSIVE FuncCallArgsLoop(_, _, _)
FuncCallArgsLoop(toks, cur, args) ==
    With(ast_parse_expr(toks, cur), LAMBDA e :
        IF e.st # "ok" THEN e
        ELSE IF e.node = Null THEN [st |-> "ok", list |-> args, cur |-> e.cur]
        ELSE LET comma == parser_chomp_if(toks, e.cur, "COMMA")
             IN  IF comma.tok = -1
                 THEN [st |-> "ok", list |-> Append(args, e.node), cur |-> e.cur]
                 ELSE FuncCallArgsLoop(toks, comma.cur, Append(args, e.node)))

ast_parse_func_call_args(toks, cur) ==
    LET lparen == parser_chomp_if(toks, cur, "LPAREN")
    IN  IF lparen.tok = -1 THEN Returns(Null, cur)
        ELSE With(FuncCallArgsLoop(toks, lparen.cur, <<>>), LAMBDA args :
            LET rparen == parser_expect_token(toks, args.cur, "RPAREN")
            IN  IF args.st # "ok" THEN args
                ELSE IF rparen.st # "ok" THEN Fails(rparen.err, rparen.cur)
                ELSE Returns([kind |-> "AstNodeKindFuncCallExpr", func_call_expr |-> Null,
                              params |-> args.list], rparen.cur))

\* the while(true) of ast_parse_suffix_expr
RECURSIVE SuffixLoop(_, _, _)
SuffixLoop(toks, out, cur) ==
    LET suffix == ast_parse_suffix_op(toks, cur)
    IN  IF suffix.node # Null
        THEN SuffixLoop(toks, [suffix.node EXCEPT !.array_ref_expr = out], suffix.cur)
        ELSE With(ast_parse_func_call_args(toks, cur), LAMBDA call_args :
            IF call_args.st # "ok" THEN call_args
            ELSE IF call_args.node # Null
            THEN SuffixLoop(toks, [call_args.node EXCEPT !.func_call_expr = out],
                            call_args.cur)
            ELSE Returns(out, cur))

ast_parse_suffix_expr(toks, cur) ==
    With(ast_parse_primary_type_expr(toks, cur), LAMBDA out :
        IF out.st # "ok" \/ out.node = Null
        THEN out
        ELSE SuffixLoop(toks, out.node, out.cur))

\* ast_parse_prefix_op_expr(parser, ast_parse_prefix_type_op,
\* ast_parse_suffix_expr): PrefixTypeOp* SuffixExpr.  The token lists of this
\* model hold no prefix operator.
ast_parse_type_expr(toks, cur) == ast_parse_suffix_expr(toks, cur)

\* Expr: the token lists handed to the declaration parsers hold no operator
\* of a tier and no prefix operator, so an expression is a SuffixExpr
ast_parse_expr(toks, cur) == ast_parse_suffix_expr(toks, cur)

\* IfTypeExpr: KEYWORD(if) LPAREN Expr RPAREN TypeExpr (KEYWORD(else) TypeExpr)?
ast_parse_if_type_expr(toks, cur) ==
    LET if_kwd == parser_chomp_if(toks, cur, "IF")
        lparen == parser_expect_token(toks, if_kwd.cur, "LPAREN")
    IN  IF if_kwd.tok = -1 THEN Returns(Null, cur)
        ELSE IF lparen.st # "ok" THEN Fails(lparen.err, lparen.cur)
        ELSE With(ast_parse_expr(toks, lparen.cur), LAMBDA condition :
            LET rparen == parser_expect_token(toks, condition.cur, "RPAREN")
            IN  IF condition.st # "ok" THEN condition
                ELSE IF rparen.st # "ok" THEN Fails(rparen.err, rparen.cur)
                ELSE With(ast_parse_type_expr(toks, rparen.cur), LAMBDA body :
                    LET else_kwd == parser_chomp_if(toks, body.cur, "ELSE")
                    IN  IF body.st # "ok" THEN body
                        ELSE IF body.node = Null
                        THEN Fails(Panic("ErrorParseError", "expected if body; found ..."),
                                   body.cur)
                        ELSE With(IF else_kwd.tok = -1
                                  THEN Returns(Null, body.cur)
                                  ELSE ast_parse_type_expr(toks, else_kwd.cur),
                                  LAMBDA else_body :
                            IF else_body.st # "ok" THEN else_body
                            ELSE Returns([kind |-> "AstNodeKindIfExpr",
                                          condition |-> condition.node,
                                          then_block |-> body.node,
                                          has_else |-> else_body.node # Null,
                                          else_node |-> else_body.node], else_body.cur))))

\* ParamDecl: ELLIPSIS? TypeExpr IDENTIFIER
ast_parse_param_decl(toks, cur) ==
    LET ellipsis == parser_chomp_if(toks, cur, "ELLIPSIS")
    IN  With(ast_parse_type_expr(toks, ellipsis.cur), LAMBDA type_expr :
            LET identifier == parser_expect_token(toks, type_expr.cur, "IDENTIFIER")
            IN  IF type_expr.st # "ok" THEN type_expr
                ELSE IF type_expr.node = Null
                THEN IF ellipsis.tok = -1
                     THEN Returns(Null, cur)
                     ELSE Fails(Panic("ErrorParseError",
                                      "expected parameter type; found ..."),
                                type_expr.cur)
                ELSE IF identifier.st # "ok" THEN Fails(identifier.err, identifier.cur)
                ELSE Returns([kind |-> "AstNodeKindParamDecl", name |-> identifier.tok,
                              type_expr |-> type_expr.node,
                              is_var_args |-> ellipsis.tok # -1], identifier.cur))

\* ast_parse_list(parser, sep, parse_fn): elements of parse_fn separated by
\* sep, up to the first position where parse_fn returns null
RECURSIVE ListLoop(_, _, _, _, _)
ListLoop(toks, cur, sep, parse_fn, list) ==
    With(IF parse_fn = "ast_parse_param_decl"
         THEN ast_parse_param_decl(toks, cur)
         ELSE ast_parse_expr(toks, cur), LAMBDA e :
        IF e.st # "ok" THEN e
        ELSE IF e.node = Null THEN [st |-> "ok", list |-> list, cur |-> e.cur]
        ELSE LET s == parser_chomp_if(toks, e.cur, sep)
             IN  IF s.tok = -1
                 THEN [st |-> "ok", list |-> Append(list, e.node), cur |-> e.cur]
                 ELSE ListLoop(toks, s.cur, sep, parse_fn, Append(list, e.node)))

ast_parse_list(toks, cur, sep, parse_fn) == ListLoop(toks, cur, sep, parse_fn, <<>>)

\* the for loop that ends ast_parse_func_prototype, entered at index i (from
\* 0) with the is_var_args of the prototype so far.  The `if` on the
\* parameter's is_var_args ends in `;`, so the assignment after it is not
\* under it.
RECURSIVE VarArgsLoop(_, _, _)
VarArgsLoop(params, i, is_var_args) ==
    IF i >= Len(params)
    THEN [st |-> "ok", is_var_args |-> is_var_args]
    ELSE IF i # Len(params) - 1
    THEN [st |-> "error",
          err |-> Panic("ErrorParseError",
                        "Cannot have multiple variadic arguments in function prototype")]
    ELSE VarArgsLoop(params, i + 1, TRUE)

\* KEYWORD(func) IDENT LPAREN ParamDeclList RPAREN LARROW RETURNTYPE.
\* The list is parsed with separator COMMA and the parser of a ParamDecl.
ast_parse_func_prototype(toks, cur) ==
    LET func == parser_chomp_if(toks, cur, "FUNC")
        identifier == parser_chomp_if(toks, func.cur, "IDENTIFIER")
        lparen == parser_expect_token(toks, identifier.cur, "LPAREN")
    IN  IF func.tok = -1 THEN Returns(Null, cur)
        ELSE IF lparen.st # "ok" THEN Fails(lparen.err, lparen.cur)
        ELSE With(ast_parse_list(toks, lparen.cur, "COMMA", "ast_parse_param_decl"),
                  LAMBDA params :
            LET rparen == parser_expect_token(toks, params.cur, "RPAREN")
            IN  IF params.st # "ok" THEN params
                ELSE IF rparen.st # "ok" THEN Fails(rparen.err, rparen.cur)
                ELSE With(ast_parse_type_expr(toks, rparen.cur), LAMBDA return_type :
                    LET var_args == VarArgsLoop(params.list, 0, FALSE)
                    IN  IF return_type.st # "ok" THEN return_type
                        ELSE IF return_type.node = Null
                        THEN Fails(Panic("ErrorParseError",
                                         "expected return type; found ..."),
                                   return_type.cur)
                        ELSE IF identifier.tok = -1 THEN Crashes(return_type.cur)
                        ELSE IF var_args.st # "ok"
                        THEN Fails(var_args.err, return_type.cur)
                        ELSE Returns([kind |-> "AstNodeKindFuncPrototype",
                                      name |-> identifier.tok,
                                      params |-> params.list,
                                      return_type |-> return_type.node,
                                      is_var_args |-> var_args.is_var_args],
                                     return_type.cur)))

\* KEYWORD(export)? KEYWORD(mutable/const)? TypeExpr? IDENTIFIER EQUAL? Expr?
\* `uninit` is what the local `expr` holds when no `=` assigns it.  The node
\* is given no type: type_expr is parsed and not stored.
ast_parse_var_decl(toks, cur, uninit) ==
    LET export_kwd == parser_chomp_if(toks, cur, "EXPORT")
        mutable_kwd == parser_chomp_if(toks, export_kwd.cur, "MUTABLE")
        const_kwd == parser_chomp_if(toks, mutable_kwd.cur, "CONST")
    IN  IF mutable_kwd.tok # -1 /\ const_kwd.tok # -1
        THEN Fails(Panic("ErrorParseError",
                         "Cannot decorate a variable as both mutable and const"),
                   const_kwd.cur)
        ELSE With(ast_parse_type_expr(toks, const_kwd.cur), LAMBDA type_expr :
            LET identifier == parser_expect_token(toks, type_expr.cur, "IDENTIFIER")
                equals == parser_chomp_if(toks, identifier.cur, "EQUALS")
            IN  IF type_expr.st # "ok" THEN type_expr
                ELSE IF identifier.st # "ok" THEN Fails(identifier.err, identifier.cur)
                ELSE With(IF equals.tok # -1
                          THEN ast_parse_expr(toks, equals.cur)
                          ELSE Returns(uninit, equals.cur), LAMBDA expr :
                    LET semicolon == parser_expect_token(toks, expr.cur, "SEMICOLON")
                    IN  IF expr.st # "ok" THEN expr
                        ELSE IF semicolon.st # "ok"
                        THEN Fails(semicolon.err, semicolon.cur)
                        ELSE Returns([kind |-> "AstNodeKindVarDecl",
                                      name |-> identifier.tok,
                                      is_export |-> export_kwd.tok # -1,
                                      is_mutable |-> mutable_kwd.tok # -1,
                                      is_const |-> const_kwd.tok # -1,
                                      type_expr |-> Null, expr |-> expr.node],
                                     semicolon.cur)))

\* BlockLabel: IDENTIFIER COLON.  Without the colon it returns null and the
\* identifier stays consumed.
ast_parse_block_label(toks, cur) ==
    LET ident == parser_chomp_if(toks, cur, "IDENTIFIER")
        colon == parser_chomp_if(toks, ident.cur, "COLON")
    IN  IF ident.tok = -1 THEN [tok |-> -1, cur |-> cur]
        ELSE IF colon.tok = -1 THEN [tok |-> -1, cur |-> colon.cur]
        ELSE [tok |-> ident.tok, cur |-> colon.cur]

\* (BlockLabel)? block
ast_parse_block_expr(toks, cur, uninit, pointee) ==
    LET block_label == ast_parse_block_label(toks, cur)
    IN  With(ast_parse_block(toks, block_label.cur, uninit, pointee), LAMBDA out :
            IF block_label.tok = -1 \/ out.st # "ok"
            THEN out
            ELSE IF out.node = Null THEN Crashes(out.cur)
            ELSE Returns([out.node EXCEPT !.name = block_label.tok], out.cur))

\* AssignmentExpr: Expr (AssignmentOp Expr)?
ast_parse_assignment_expr(toks, cur) ==
    ast_parse_binary_op_expr(toks, cur, BinaryOpChainOnce, "ast_parse_assignment_op",
                             "ast_parse_expr", {})

\* ast_clone_node is handed the enumerator AstNodeKindIfExpr where it takes a
\* node: `pointee` is what lies at the address of that value, null when the
\* value is 0
ast_parse_if_prefix(toks, cur, pointee) ==
    LET if_kwd == parser_chomp_if(toks, cur, "IF")
        lparen == parser_expect_token(toks, if_kwd.cur, "LPAREN")
    IN  IF if_kwd.tok = -1 THEN Returns(Null, cur)
        ELSE IF lparen.st # "ok" THEN Fails(lparen.err, lparen.cur)
        ELSE With(ast_parse_expr(toks, lparen.cur), LAMBDA condition :
            LET rparen == parser_expect_token(toks, condition.cur, "RPAREN")
                out == IF pointee = [kind |-> "unmapped"]
                       THEN Crashes(rparen.cur)
                       ELSE ast_clone_node(pointee, rparen.cur)
            IN  IF condition.st # "ok" THEN condition
                ELSE IF rparen.st # "ok" THEN Fails(rparen.err, rparen.cur)
                ELSE IF out.st # "ok" THEN out
                ELSE Returns([kind |-> out.node.kind, condition |-> condition.node,
                              then_block |-> Null, has_else |-> FALSE,
                              else_node |-> Null], out.cur))

\* the body of an if statement: a block expression, else an assignment
\* expression, else the panic
IfBody(toks, cur, uninit, pointee) ==
    With(ast_parse_block_expr(toks, cur, uninit, pointee), LAMBDA block :
        IF block.st # "ok" \/ block.node # Null THEN block
        ELSE With(ast_parse_assignment_expr(toks, block.cur), LAMBDA assignment :
            IF assignment.st # "ok" \/ assignment.node # Null THEN assignment
            ELSE Fails(Panic("ErrorParseError", "expected if body; found ..."),
                       assignment.cur + 1)))

\* ast_parse_if_statement without the assignment to has_else: the field
\* keeps the false of calloc
ast_parse_if_statement_HasElseUnset(toks, cur, uninit, pointee) ==
    With(ast_parse_if_prefix(toks, cur, pointee), LAMBDA out :
        IF out.st # "ok" \/ out.node = Null THEN out
        ELSE With(IfBody(toks, out.cur, uninit, pointee), LAMBDA body :
            LET else_kwd == parser_chomp_if(toks, body.cur, "ELSE")
            IN  IF body.st # "ok" THEN body
                ELSE With(IF else_kwd.tok # -1
                          THEN ast_parse_statement(toks, else_kwd.cur, uninit, pointee)
                          ELSE Returns(Null, else_kwd.cur), LAMBDA else_body :
                    IF else_body.st # "ok" THEN else_body
                    ELSE Returns([out.node EXCEPT !.then_block = body.node,
                                                  !.else_node = else_body.node],
                                 else_body.cur))))

ast_parse_if_statement(toks, cur, uninit, pointee) ==
    With(ast_parse_if_prefix(toks, cur, pointee), LAMBDA out :
        IF out.st # "ok" \/ out.node = Null THEN out
        ELSE With(IfBody(toks, out.cur, uninit, pointee), LAMBDA body :
            LET else_kwd == parser_chomp_if(toks, body.cur, "ELSE")
            IN  IF body.st # "ok" THEN body
                ELSE With(IF else_kwd.tok # -1
                          THEN ast_parse_statement(toks, else_kwd.cur, uninit, pointee)
                          ELSE Returns(Null, else_kwd.cur), LAMBDA else_body :
                    IF else_body.st # "ok" THEN else_body
                    ELSE Returns([out.node EXCEPT !.then_block = body.node,
                                                  !.has_else = else_body.node # Null,
                                                  !.else_node = else_body.node],
                                 else_body.cur))))

\* a labeled block; ast_parse_loop_statement returns null unless the current
\* token opens a loop, which no token of the lists of this model does
ast_parse_labeled_statements(toks, cur, uninit, pointee) ==
    LET label == ast_parse_block_label(toks, cur)
    IN  With(ast_parse_block(toks, label.cur, uninit, pointee), LAMBDA block :
            IF block.st # "ok" THEN block
            ELSE IF block.node # Null
            THEN IF label.tok = -1
                 THEN Crashes(block.cur)
                 ELSE Returns([block.node EXCEPT !.name = label.tok], block.cur)
            ELSE IF label.tok # -1
            THEN Fails(Panic("ErrorUnexpectedToken", "invalid token: ..."), block.cur)
            ELSE Returns(Null, block.cur))

\* The alternatives are tried in order, each at the cursor the one before
\* left, until one returns a node or ends the parse.  The defer and match
\* statements return null unless the current token is DEFER or MATCH, kinds
\* that the token lists of this model do not hold.
ast_parse_statement(toks, cur, uninit, pointee) ==
    With(ast_parse_var_decl(toks, cur, uninit), LAMBDA var_decl :
        IF var_decl.st # "ok" \/ var_decl.node # Null THEN var_decl
        ELSE With(ast_parse_if_statement(toks, var_decl.cur, uninit, pointee),
                  LAMBDA if_statement :
            IF if_statement.st # "ok" \/ if_statement.node # Null THEN if_statement
            ELSE With(ast_parse_labeled_statements(toks, if_statement.cur, uninit,
                                                   pointee),
                      LAMBDA labeled_statement :
                IF labeled_statement.st # "ok" \/ labeled_statement.node # Null
                THEN labeled_statement
                ELSE ast_parse_assignment_expr(toks, labeled_statement.cur))))

\* the while loop of ast_parse_block
RECURSIVE StatementsLoop(_, _, _, _, _)
StatementsLoop(toks, cur, uninit, pointee, statements) ==
    With(ast_parse_statement(toks, cur, uninit, pointee), LAMBDA statement :
        IF statement.st # "ok" THEN statement
        ELSE IF statement.node = Null
        THEN [st |-> "ok", list |-> statements, cur |-> statement.cur]
        ELSE StatementsLoop(toks, statement.cur, uninit, pointee,
                            Append(statements, statement.node)))

ast_parse_block(toks, cur, uninit, pointee) ==
    LET lbrace == parser_chomp_if(toks, cur, "LBRACE")
    IN  IF lbrace.tok = -1 THEN Returns(Null, cur)
        ELSE With(StatementsLoop(toks, lbrace.cur, uninit, pointee, <<>>),
                  LAMBDA statements :
            LET rbrace == parser_expect_token(toks, statements.cur, "RBRACE")
            IN  IF statements.st # "ok" THEN statements
                ELSE IF rbrace.st # "ok" THEN Fails(rbrace.err, rbrace.cur)
                ELSE Returns([kind |-> "AstNodeKindBlock",
                              statements |-> statements.list, name |-> -1],
                             rbrace.cur))

\* what an uninitialized pointer may hold: null or anything else
Uninit == {Null, [kind |-> "garbage"]}

\* what may lie at the address ast_clone_node is handed: nothing when the
\* address is 0, memory that cannot be read, or bytes read as a node of some
\* kind
ClonePointees ==
    {Null, [kind |-> "unmapped"], [kind |-> "AstNodeKindIfExpr"],
     [kind |-> "AstNodeKindBlock"]}

\* the tokens of one parameter, variadic or not
ParamTokens(variadic) ==
    IF variadic THEN <<"ELLIPSIS", "IDENTIFIER", "IDENTIFIER">>
    ELSE <<"IDENTIFIER", "IDENTIFIER">>

\* the tokens of a parameter list; shape[i] tells whether parameter i is variadic
RECURSIVE ParamListTokens(_)
ParamListTokens(shape) ==
    IF shape = <<>> THEN <<>>
    ELSE IF Len(shape) = 1 THEN ParamTokens(shape[1])
    ELSE ParamTokens(shape[1]) \o <<"COMMA">> \o ParamListTokens(Tail(shape))

ParamShapes == SeqsUpTo(BOOLEAN, MaxParams)

Opt(present, toks) == IF present THEN toks ELSE <<>>

\* `func` name? `(` parameters `)` `->`? type?
ProtoTokens(named, shape, arrow, ret) ==
    <<"FUNC">> \o Opt(named, <<"IDENTIFIER">>) \o <<"LPAREN">> \o ParamListTokens(shape)
    \o <<"RPAREN">> \o Opt(arrow, <<"RARROW">>) \o Opt(ret, <<"IDENTIFIER">>)
    \o <<"TOK_EOF">>

FuncProtoLists ==
    {ProtoTokens(named, shape, arrow, ret) :
        named \in BOOLEAN, shape \in ParamShapes, arrow \in BOOLEAN, ret \in BOOLEAN}

Qualifiers == {<<>>, <<"MUTABLE">>, <<"CONST">>, <<"MUTABLE", "CONST">>,
               <<"CONST", "MUTABLE">>}

Initializers == {<<>>, <<"EQUALS">>, <<"EQUALS", "INTEGER">>, <<"EQUALS", "IDENTIFIER">>}

\* `export`? qualifiers type? name? initializer `;`?
VarDeclTokens(export, qual, typed, named, init, semi) ==
    Opt(export, <<"EXPORT">>) \o qual \o Opt(typed, <<"IDENTIFIER">>)
    \o Opt(named, <<"IDENTIFIER">>) \o init \o Opt(semi, <<"SEMICOLON">>)
    \o <<"TOK_EOF">>

VarDeclLists ==
    {VarDeclTokens(export, qual, typed, named, init, semi) :
        export \in BOOLEAN, qual \in Qualifiers, typed \in BOOLEAN, named \in BOOLEAN,
        init \in Initializers, semi \in BOOLEAN}

IfBodies == {<<>>, <<"INTEGER">>, <<"IDENTIFIER">>, <<"IDENTIFIER", "IDENTIFIER">>,
             <<"INTEGER", "EQUALS", "INTEGER">>, <<"LBRACE", "RBRACE">>}

ElseParts ==
    {<<>>, <<"ELSE">>, <<"ELSE", "INTEGER">>,
     <<"ELSE", "IDENTIFIER", "SEMICOLON">>,
     <<"ELSE", "IDENTIFIER", "IDENTIFIER", "SEMICOLON">>,
     <<"ELSE", "IDENTIFIER", "IDENTIFIER", "EQUALS", "INTEGER", "SEMICOLON">>}

\* `if` `(` condition `)` body else-part
IfTokens(body, else_part) ==
    <<"IF", "LPAREN", "IDENTIFIER", "RPAREN">> \o body \o else_part \o <<"TOK_EOF">>

IfLists == {IfTokens(body, else_part) : body \in IfBodies, else_part \in ElseParts}

DeclTokenLists == FuncProtoLists \cup VarDeclLists \cup IfLists

ParseFuncPrototype ==
    Run([fn |-> "ast_parse_func_prototype"],
        ast_parse_func_prototype(toklist, curr_tok))

ParseVarDecl ==
    \E uninit \in Uninit :
        Run([fn |-> "ast_parse_var_decl", uninit |-> uninit],
            ast_parse_var_decl(toklist, curr_tok, uninit))

ParseIfStatement ==
    \E uninit \in Uninit, pointee \in ClonePointees :
        Run([fn |-> "ast_parse_if_statement", uninit |-> uninit, pointee |-> pointee],
            ast_parse_if_statement(toklist, curr_tok, uninit, pointee))

\* parser_init on the token list of a declaration or statement
DeclInit ==
    /\ toklist \in DeclTokenLists
    /\ curr_tok = 0
    /\ call = <<>>
    /\ result = Null
    /\ ppc = "ready"
    /\ buf = <<>>
    /\ offset = 0
    /\ lineno = 1
    /\ colno = 1
    /\ tokens = <<>>
    /\ tokenList_cap = TOKENLIST_ALLOC_SIZE
    /\ tokenList_slots = TOKENLIST_ALLOC_SIZE
    /\ reported = 0
    /\ pc = "idle"

DeclNext ==
    \/ ParseFuncPrototype
    \/ ParseVarDecl
    \/ ParseIfStatement

DeclSpec == DeclInit /\ [][DeclNext]_vars

-----------------------------------------------------------------------------
(* The cursor primitives, called one after another on a token list, as the  *)
(* parsing functions call them.                                             *)

\* the kinds the parsing functions hand to parser_chomp_if
ChompKinds == {"FUNC", "IDENTIFIER", "LPAREN", "RPAREN", "COMMA", "ELLIPSIS",
               "EXPORT", "MUTABLE", "CONST", "EQUALS", "SEMICOLON", "IF", "ELSE",
               "LBRACE", "RBRACE", "COLON"}

\* a token pointer as a result: the index of the token, or null
TokenResult(tok) == IF tok = -1 THEN Null ELSE [kind |-> "Token", tok |-> tok]

\* a call of a cursor primitive that returns r = [tok, cur].  It reads the
\* current token, so there is one: the cursor is inside the list.
Primitive(c, r) ==
    /\ ppc \in {"ready", "returned"}
    /\ curr_tok < Len(toklist)
    /\ call' = c
    /\ result' = TokenResult(r.tok)
    /\ curr_tok' = r.cur
    /\ ppc' = "returned"
    /\ UNCHANGED <<toklist, buf, offset, lineno, colno, tokens, tokenList_cap,
                   tokenList_slots, reported, pc>>

ParserChomp == Primitive([fn |-> "parser_chomp"], parser_chomp(toklist, curr_tok))

ParserChompIf ==
    \E tokenkind \in ChompKinds :
        Primitive([fn |-> "parser_chomp_if", tokenkind |-> tokenkind],
                  parser_chomp_if(toklist, curr_tok, tokenkind))

ChompNext ==
    \/ ParserChomp
    \/ ParserChompIf

ChompSpec == DeclInit /\ [][ChompNext]_vars

-----------------------------------------------------------------------------
(* Blocks and the statements inside them *)

\* most statements of a block handed to the parser
MaxStmts == 2

\* the statements of the blocks: <<tokens, kind of the node of the statement>>.
\* A variable declaration, an if statement, a labeled block, an assignment.
StatementShapes ==
    { << <<"IDENTIFIER", "IDENTIFIER", "SEMICOLON">>, "AstNodeKindVarDecl" >>,
      << <<"IF", "LPAREN", "IDENTIFIER", "RPAREN", "IDENTIFIER", "EQUALS", "INTEGER">>,
         "AstNodeKindIfExpr" >>,
      << <<"IDENTIFIER", "COLON", "LBRACE", "RBRACE">>, "AstNodeKindBlock" >>,
      << <<"IDENTIFIER", "EQUALS", "INTEGER">>, "AstNodeKindBinaryOpExpr" >> }

RECURSIVE StatementTokens(_)
StatementTokens(stmts) ==
    IF stmts = <<>> THEN <<>>
    ELSE Head(stmts)[1] \o StatementTokens(Tail(stmts))

\* `{` s1 ... sn `}`
BlockTokens(stmts) == <<"LBRACE">> \o StatementTokens(stmts) \o <<"RBRACE", "TOK_EOF">>

BlockLists == {BlockTokens(stmts) : stmts \in SeqsUpTo(StatementShapes, MaxStmts)}

\* token lists that start with what may be a label
LabelLists ==
    {head \o rest \o <<"TOK_EOF">> :
        head \in {<<>>, <<"IDENTIFIER">>, <<"IDENTIFIER", "COLON">>},
        rest \in {<<>>, <<"LBRACE", "RBRACE">>, <<"SEMICOLON">>, <<"EQUALS", "INTEGER">>,
                  <<"INTEGER">>}}

BlockTokenLists == BlockLists \cup LabelLists

ParseBlock ==
    \E uninit \in Uninit, pointee \in ClonePointees :
        Run([fn |-> "ast_parse_block", uninit |-> uninit, pointee |-> pointee],
            ast_parse_block(toklist, curr_tok, uninit, pointee))

ParseStatement ==
    \E uninit \in Uninit, pointee \in ClonePointees :
        Run([fn |-> "ast_parse_statement", uninit |-> uninit, pointee |-> pointee],
            ast_parse_statement(toklist, curr_tok, uninit, pointee))

ParseBlockExpr ==
    \E uninit \in Uninit, pointee \in ClonePointees :
        Run([fn |-> "ast_parse_block_expr", uninit |-> uninit, pointee |-> pointee],
            ast_parse_block_expr(toklist, curr_tok, uninit, pointee))

ParseLabeledStatements ==
    \E uninit \in Uninit, pointee \in ClonePointees :
        Run([fn |-> "ast_parse_labeled_statements", uninit |-> uninit,
             pointee |-> pointee],
            ast_parse_labeled_statements(toklist, curr_tok, uninit, pointee))

ParseBlockLabel ==
    LET label == ast_parse_block_label(toklist, curr_tok)
    IN  Run([fn |-> "ast_parse_block_label"],
            Returns(TokenResult(label.tok), label.cur))

ParseAssignmentExpr ==
    Run([fn |-> "ast_parse_assignment_expr"],
        ast_parse_assignment_expr(toklist, curr_tok))

\* parser_init on the token list of a block or of a labeled statement
BlockInit ==
    /\ toklist \in BlockTokenLists
    /\ curr_tok = 0
    /\ call = <<>>
    /\ result = Null
    /\ ppc = "ready"
    /\ buf = <<>>
    /\ offset = 0
    /\ lineno = 1
    /\ colno = 1
    /\ tokens = <<>>
    /\ tokenList_cap = TOKENLIST_ALLOC_SIZE
    /\ tokenList_slots = TOKENLIST_ALLOC_SIZE
    /\ reported = 0
    /\ pc = "idle"

BlockNext ==
    \/ ParseBlock
    \/ ParseStatement
    \/ ParseBlockExpr
    \/ ParseLabeledStatements
    \/ ParseBlockLabel
    \/ ParseAssignmentExpr

BlockSpec == BlockInit /\ [][BlockNext]_vars

-----------------------------------------------------------------------------
(* Properties of the lexer *)

Kinds(toks) == [i \in DOMAIN toks |-> toks[i].kind]
CountKind(toks, k) == Cardinality({i \in DOMAIN toks : toks[i].kind = k})
Last(seq) == seq[Len(seq)]

\* the tokens appended by the step
NewTokens == (Len(tokens) + 1)..Len(tokens')

\* number of newline characters among the first n characters of b
NewlinesBefore(b, n) == Cardinality({i \in 1..Len(b) : i <= n /\ b[i] = "\n"})

\* C1: when lexer_lex returns, the token sequence ends with an EOF token, holds
\* exactly one EOF token and holds no ILLEGAL token.
C1_EndsWithOneEOF_NoIllegal ==
    pc = "done" =>
        /\ tokens # <<>>
        /\ Last(tokens).kind = "TOK_EOF"
        /\ CountKind(tokens, "TOK_EOF") = 1
        /\ CountKind(tokens, "TOK_ILLEGAL") = 0

\* C2: once the lexer has reported an error it stops: no token is appended
\* after the report.
C2_ErrorIsFatal == [][reported > 0 => tokens' = tokens]_vars

\* C6: every token appended by an iteration of the main loop records the
\* position (offset, line, column) the lexer had when the iteration began,
\* which is the position of the first character of the lexeme.
C6_LocationIsFirstChar ==
    [][\A i \in NewTokens :
          /\ tokens'[i].offset = offset
          /\ tokens'[i].lineno = lineno
          /\ tokens'[i].colno = colno]_vars

\* C7: the line recorded in every token is 1 plus the number of newline
\* characters of the buffer before the token's offset.
C7_LineMatchesOffset ==
    \A i \in DOMAIN tokens :
        tokens[i].lineno = 1 + NewlinesBefore(buf, tokens[i].offset)

\* C8: tokens are appended in non-decreasing offset order.
C8_OffsetsNonDecreasing ==
    \A i \in 1..(Len(tokens) - 1) : tokens[i].offset <= tokens[i + 1].offset

\* a finished run whose tokens sit at three different, increasing offsets
C8_Witness ==
    /\ pc = "done"
    /\ Len(tokens) >= 3
    /\ tokens[1].offset < tokens[2].offset
    /\ tokens[2].offset < tokens[3].offset

\* C9: the lexer's offset, and the offset recorded in every token, is at most
\* the length of the buffer.
C9_OffsetInsideBuffer ==
    /\ offset <= Len(buf)
    /\ \A i \in DOMAIN tokens : tokens[i].offset <= Len(buf)

\* The operator table of the language: every operator and punctuator lexeme
\* with the token kind that stands for it.
OperatorTable ==
    { <<<<"(">>, "LPAREN">>, <<<<")">>, "RPAREN">>, <<<<"[">>, "LSQUAREBRACK">>,
      <<<<"]">>, "RSQUAREBRACK">>, <<<<"{">>, "LBRACE">>, <<<<"}">>, "RBRACE">>,
      <<<<",">>, "COMMA">>, <<<<";">>, "SEMICOLON">>, <<<<":">>, "COLON">>,
      <<<<":", ":">>, "COLON_COLON">>, <<<<".">>, "DOT">>, <<<<".", ".">>, "DDOT">>,
      <<<<".", ".", ".">>, "ELLIPSIS">>, <<<<"@">>, "MACRO">>,
      <<<<"#">>, "HASH_SIGN">>, <<<<"?">>, "QUESTION">>, <<<<"\\">>, "BACKSLASH">>,
      <<<<"-", ">">>, "RARROW">>, <<<<"<", "-">>, "LARROW">>,
      <<<<"=", ">">>, "EQUALS_ARROW">>,
      <<<<"=">>, "EQUALS">>, <<<<"=", "=">>, "EQUALS_EQUALS">>,
      <<<<"!", "=">>, "EXCLAMATION_EQUALS">>, <<<<"<">>, "LESS_THAN">>,
      <<<<">">>, "GREATER_THAN">>, <<<<"<", "=">>, "LESS_THAN_OR_EQUAL_TO">>,
      <<<<">", "=">>, "GREATER_THAN_OR_EQUAL_TO">>, <<<<"+">>, "PLUS">>,
      <<<<"-">>, "MINUS">>, <<<<"*">>, "MULT">>, <<<<"/">>, "SLASH">>,
      <<<<"%">>, "MOD">>, <<<<"*", "*">>, "MULT_MULT">>,
      <<<<"<", "<">>, "LBITSHIFT">>, <<<<">", ">">>, "RBITSHIFT">>,
      <<<<"&">>, "AND">>, <<<<"|">>, "OR">>, <<<<"^">>, "XOR">>,
      <<<<"~">>, "TILDA">>, <<<<"&", "&">>, "AND_AND">>, <<<<"|", "|">>, "OR_OR">>,
      <<<<"!">>, "EXCLAMATION">>, <<<<"+", "+">>, "PLUS_PLUS">>,
      <<<<"-", "-">>, "MINUS_MINUS">>, <<<<"+", "=">>, "PLUS_EQUALS">>,
      <<<<"-", "=">>, "MINUS_EQUALS">>, <<<<"*", "=">>, "MULT_EQUALS">>,
      <<<<"/", "=">>, "SLASH_EQUALS">>, <<<<"%", "=">>, "MOD_EQUALS">>,
      <<<<"<", "<", "=">>, "LBITSHIFT_EQUALS">>,
      <<<<">", ">", "=">>, "RBITSHIFT_EQUALS">>, <<<<"&", "=">>, "AND_EQUALS">>,
      <<<<"|", "=">>, "OR_EQUALS">>, <<<<"^", "=">>, "XOR_EQUALS">>,
      <<<<"~", "=">>, "TILDA_EQUALS">> }

\* the input not yet consumed
Rest == SubSeq(buf, offset + 1, Len(buf))

IsPrefix(p, s) == Len(p) <= Len(s) /\ SubSeq(s, 1, Len(p)) = p

Matches(s) == {e \in OperatorTable : IsPrefix(e[1], s)}

\* the entry of the table with the longest lexeme that starts s
LongestMatch(s) ==
    CHOOSE e \in Matches(s) : \A f \in Matches(s) : Len(f[1]) <= Len(e[1])

\* the lexer stands at an operator or punctuator (and not at a comment)
AtOperator ==
    /\ pc = "loop"
    /\ offset <= Len(buf)
    /\ Matches(Rest) # {}
    /\ ~(IsPrefix(<<"/", "/">>, Rest) \/ IsPrefix(<<"/", "*">>, Rest))

\* C10: at an operator or punctuator the lexer appends exactly one token, of
\* the kind of the longest lexeme of the operator table that starts the
\* remaining input, and consumes exactly the characters of that lexeme.
C10_MaximalMunch ==
    [][AtOperator =>
          /\ Len(tokens') = Len(tokens) + 1
          /\ Last(tokens').kind = LongestMatch(Rest)[2]
          /\ offset' = offset + Len(LongestMatch(Rest)[1])]_vars

-----------------------------------------------------------------------------
(* Properties of the parser *)

IsBinaryOp(n) == n.kind = "AstNodeKindBinaryOpExpr"

BinaryOp(op, lhs, rhs) ==
    [kind |-> "AstNodeKindBinaryOpExpr", op |-> op, lhs |-> lhs, rhs |-> rhs]

Identifier == ast_create_node("AstNodeKindIdentifier")
IntLiteral == ast_create_node("AstNodeKindIntLiteral")

RECURSIVE OperandsPresent(_)
OperandsPresent(n) ==
    IsBinaryOp(n) =>
        /\ n.lhs # Null /\ n.rhs # Null
        /\ OperandsPresent(n.lhs) /\ OperandsPresent(n.rhs)

RECURSIVE CountBinaryOps(_)
CountBinaryOps(n) ==
    IF IsBinaryOp(n) THEN 1 + CountBinaryOps(n.lhs) + CountBinaryOps(n.rhs) ELSE 0

\* nested to the left: no right operand is itself a BinaryOp
RECURSIVE LeftNested(_)
LeftNested(n) == IsBinaryOp(n) => ~IsBinaryOp(n.rhs) /\ LeftNested(n.lhs)

\* C3: every BinaryOp node of a tree the generic routine returns has both
\* operands: after an operator, a missing right operand is never returned as
\* a null rhs.
C3_BinaryOpHasBothOperands == ppc = "returned" => OperandsPresent(result)

OperandNode(kind) == IF kind = "INTEGER" THEN IntLiteral ELSE Identifier
Operands == {"IDENTIFIER", "INTEGER"}
Prec(kind) == (CHOOSE e \in precedence_table : e[1] = kind)[2]
BinKind(kind) == (CHOOSE e \in precedence_table : e[1] = kind)[3]
Operators == {e[1] : e \in precedence_table} \cap ParserKinds

\* the tier function of the operators of precedence p
TierFunctionOf(p) ==
    CHOOSE fn \in TierFunctions : <<TierArgs(fn).op_parser, p>> \in OpParserPrec

\* the tree of `x op1 y op2 z` when the operator of the higher tier binds tighter
ByPrecedence(x, op1, y, op2, z) ==
    IF Prec(op2) > Prec(op1)
    THEN BinaryOp(BinKind(op1), OperandNode(x),
                  BinaryOp(BinKind(op2), OperandNode(y), OperandNode(z)))
    ELSE BinaryOp(BinKind(op2),
                  BinaryOp(BinKind(op1), OperandNode(x), OperandNode(y)),
                  OperandNode(z))

\* C4: for two operators of different tiers, the tier function of the lower
\* tier parses `x op1 y op2 z` with the operator of the higher tier bound
\* tighter: `1 + 2 * 3` as BinaryOp(+, 1, BinaryOp(*, 2, 3)), `a or b and c`
\* as BinaryOp(or, a, BinaryOp(and, b, c)).
C4_HigherTierBindsTighter ==
    \A x, y, z \in Operands : \A op1, op2 \in Operators :
        ( /\ Prec(op1) # Prec(op2)
          /\ toklist = <<x, op1, y, op2, z, "TOK_EOF">>
          /\ ppc # "ready"
          /\ call.fn = TierFunctionOf(IF Prec(op1) < Prec(op2) THEN Prec(op1) ELSE Prec(op2)) )
        => ppc = "returned" /\ result = ByPrecedence(x, op1, y, op2, z)

\* the token kinds the operator parser of the call accepts
CallOps == {e[1] : e \in OpEntries(call.op_parser)}

\* operator tokens of the tier among the tokens consumed
OpsConsumed == Cardinality({i \in 1..curr_tok : toklist[i] \in CallOps})

C5_WitnessOnce ==
    /\ ppc = "returned"
    /\ call.chain = BinaryOpChainOnce
    /\ toklist = <<"IDENTIFIER", "EQUALS_EQUALS", "IDENTIFIER", "EQUALS_EQUALS",
                   "IDENTIFIER", "TOK_EOF">>
    /\ curr_tok = 3

-----------------------------------------------------------------------------
(* The lexer on identifiers and keywords, and on whitespace and comments:   *)
(* lexer_lex on buffers over two further alphabets.  The cases of the       *)
(* switch that these characters cannot reach are left out of the next-state *)
(* relations.                                                               *)

\* letters that spell the keywords `if` and `in`, the underscore, a digit
\* and a separator
IdentAlphabet == {"i", "f", "n", "_", "1", " "}

IdentBuffers == SeqsUpTo(IdentAlphabet, MaxLen)

\* lexer_init on a buffer of identifier characters
IdentInit ==
    /\ buf \in IdentBuffers
    /\ offset = 0
    /\ lineno = 1
    /\ colno = 1
    /\ tokens = <<>>
    /\ tokenList_cap = TOKENLIST_ALLOC_SIZE
    /\ tokenList_slots = TOKENLIST_ALLOC_SIZE
    /\ reported = 0
    /\ pc = "start"
    /\ toklist = <<>>
    /\ curr_tok = 0
    /\ call = <<>>
    /\ result = <<>>
    /\ ppc = "idle"

IdentNext ==
    \/ LexBOM
    \/ LexEOF
    \/ LexWhitespace
    \/ LexIdentifier
    \/ LexDigit

IdentSpec == IdentInit /\ [][IdentNext]_vars

\* longest buffer of whitespace and comment characters
TriviaMaxLen == 6

TriviaAlphabet == {" ", "\n", "/", "*"}

TriviaBuffers == SeqsUpTo(TriviaAlphabet, TriviaMaxLen)

\* lexer_init on a buffer of whitespace and comment characters
TriviaInit ==
    /\ buf \in TriviaBuffers
    /\ offset = 0
    /\ lineno = 1
    /\ colno = 1
    /\ tokens = <<>>
    /\ tokenList_cap = TOKENLIST_ALLOC_SIZE
    /\ tokenList_slots = TOKENLIST_ALLOC_SIZE
    /\ reported = 0
    /\ pc = "start"
    /\ toklist = <<>>
    /\ curr_tok = 0
    /\ call = <<>>
    /\ result = <<>>
    /\ ppc = "idle"

TriviaNext ==
    \/ LexBOM
    \/ LexEOF
    \/ LexWhitespace
    \/ LexNewline
    \/ LexComment
    \/ LexPunctuator

TriviaSpec == TriviaInit /\ [][TriviaNext]_vars

\* most punctuators of a buffer of TokenListSpec: with the EOF token, one
\* token more than 2 * TOKENLIST_ALLOC_SIZE
MaxPunctuators == 16

RECURSIVE Repeat(_, _)
Repeat(ch, n) == IF n = 0 THEN <<>> ELSE <<ch>> \o Repeat(ch, n - 1)

\* buffers of n semicolons: n + 1 tokens
PunctuatorBuffers == {Repeat(";", n) : n \in 0..MaxPunctuators}

\* lexer_init on a buffer of semicolons
TokenListInit ==
    /\ buf \in PunctuatorBuffers
    /\ offset = 0
    /\ lineno = 1
    /\ colno = 1
    /\ tokens = <<>>
    /\ tokenList_cap = TOKENLIST_ALLOC_SIZE
    /\ tokenList_slots = TOKENLIST_ALLOC_SIZE
    /\ reported = 0
    /\ pc = "start"
    /\ toklist = <<>>
    /\ curr_tok = 0
    /\ call = <<>>
    /\ result = <<>>
    /\ ppc = "idle"

TokenListNext ==
    \/ LexBOM
    \/ LexEOF
    \/ LexPunctuator

TokenListSpec == TokenListInit /\ [][TokenListNext]_vars

-----------------------------------------------------------------------------
(* lexer_lex as a function of the buffer: the token list it leaves, and     *)
(* whether it returns.  One iteration of the main loop is LexIteration.     *)

\* the iteration of the main loop at position s: the position after it, the
\* tokens it appends and where the loop goes
LexIteration(b, s, stray) ==
    LET adv == lexer_advance(b, s)
        curr == adv.ch
        next == lexer_peek(b, adv.s)
    IN  IF curr = nullchar
        THEN [s |-> adv.s, toks |-> <<lexer_maketoken(adv.s, "TOK_EOF")>>, pc |-> "done"]
        ELSE IF curr \in WHITESPACE_NO_NEWLINE
        THEN [s |-> adv.s, toks |-> <<>>, pc |-> "loop"]
        ELSE IF curr = "\n"
        THEN [s |-> LEXER_RESET_COLNO(LEXER_INCREMENT_LINENO(adv.s)), toks |-> <<>>,
              pc |-> "loop"]
        ELSE IF curr \in ALPHA \cup {"_"}
        THEN LET r == lexer_lex_identifier(b, adv.s, stray)
             IN  [s |-> r.s, toks |-> r.toks, pc |-> "loop"]
        ELSE IF curr \in DIGIT_NON_ZERO
        THEN LET r == lexer_lex_digit(b, adv.s)
             IN  [s |-> r.s, toks |-> r.toks, pc |-> "loop"]
        ELSE IF curr = "\"" /\ next = "\""
        THEN LET s2 == LEXER_INCREMENT_OFFSET(adv.s)
             IN  [s |-> s2, pc |-> "loop",
                  toks |-> <<lexer_makestrtoken(s2, <<"\"", "\"">>),
                             lexer_maketoken(s2, "TOK_ILLEGAL")>>]
        ELSE IF curr = "\""
        THEN LET r == lexer_lex_string(b, adv.s)
             IN  [s |-> r.s, toks |-> r.toks, pc |-> IF r.hang THEN "hang" ELSE "loop"]
        ELSE IF IsCommentStart(curr, next)
        THEN [s |-> IF next = "/" THEN lexer_lex_sl_comment(b, adv.s)
                                  ELSE lexer_lex_ml_comment(b, adv.s),
              toks |-> <<>>, pc |-> "loop"]
        ELSE IF curr \in SingleChars \cup OperatorChars \cup {"#"}
        THEN LET r == LexOperator(b, adv.s, curr, next)
             IN  [s |-> r.s, toks |-> <<lexer_maketoken(r.s, r.kind)>>, pc |-> "loop"]
        ELSE [s |-> adv.s, toks |-> <<lexer_maketoken(adv.s, "TOK_ILLEGAL")>>,
              pc |-> "loop"]

RECURSIVE LexLoop(_, _, _, _)
LexLoop(b, s, toks, stray) ==
    LET it == LexIteration(b, s, stray)
    IN  IF it.pc = "loop"
        THEN LexLoop(b, it.s, toks \o it.toks, stray)
        ELSE [pc |-> it.pc, toks |-> toks \o it.toks]

\* lexer_init followed by lexer_lex on buffer b
lexer_lex(b, stray) ==
    LexLoop(b, IF HasBOM(b) THEN lexer_advancen(b, Pos(0, 1, 1), 3) ELSE Pos(0, 1, 1),
            <<>>, stray)

-----------------------------------------------------------------------------
(* Properties of the lexer: identifiers, numbers, strings, trivia, BOM *)

\* the keyword table of the language: lexeme and token kind
KeywordTable ==
    { <<<<"f", "u", "n", "c">>, "FUNC">>,
      <<<<"m", "u", "t", "a", "b", "l", "e">>, "MUTABLE">>,
      <<<<"c", "o", "n", "s", "t">>, "CONST">>,
      <<<<"e", "x", "p", "o", "r", "t">>, "EXPORT">>,
      <<<<"i", "f">>, "IF">>,
      <<<<"e", "l", "s", "e">>, "ELSE">>,
      <<<<"l", "o", "o", "p">>, "LOOP">>,
      <<<<"w", "h", "i", "l", "e">>, "WHILE">>,
      <<<<"i", "n">>, "IN">>,
      <<<<"i", "n", "l", "i", "n", "e">>, "INLINE">>,
      <<<<"b", "r", "e", "a", "k">>, "BREAK">>,
      <<<<"c", "o", "n", "t", "i", "n", "u", "e">>, "CONTINUE">>,
      <<<<"r", "e", "t", "u", "r", "n">>, "RETURN">>,
      <<<<"d", "e", "f", "e", "r">>, "DEFER">>,
      <<<<"m", "a", "t", "c", "h">>, "MATCH">>,
      <<<<"c", "a", "s", "e">>, "CASE">>,
      <<<<"t", "r", "u", "e">>, "TOK_TRUE">>,
      <<<<"f", "a", "l", "s", "e">>, "TOK_FALSE">>,
      <<<<"n", "u", "l", "l">>, "TOK_NULL">>,
      <<<<"u", "n", "r", "e", "a", "c", "h", "a", "b", "l", "e">>, "UNREACHABLE">>,
      <<<<"a", "n", "d">>, "KW_AND">>,
      <<<<"o", "r">>, "KW_OR">>,
      <<<<"t", "r", "y">>, "TRY">> }

IsAlnum(ch) == isLetter(ch) \/ isDigit(ch) \/ ch = "_"

\* the longest prefix of s made of the characters that satisfy Ok
RunLen(s, Ok(_)) ==
    CHOOSE k \in 0..Len(s) :
        /\ \A j \in 1..k : Ok(s[j])
        /\ k = Len(s) \/ ~Ok(s[k + 1])

IdentLexeme(s) == SubSeq(s, 1, RunLen(s, IsAlnum))

KeywordOrIdentifier(lexeme) ==
    IF \E e \in KeywordTable : e[1] = lexeme
    THEN (CHOOSE e \in KeywordTable : e[1] = lexeme)[2]
    ELSE "IDENTIFIER"

\* the lexer stands at the first character of an identifier or keyword
AtIdentifier ==
    /\ pc = "loop"
    /\ offset < Len(buf)
    /\ buf[offset + 1] \in ALPHA \cup {"_"}

\* C11: at an identifier-shaped lexeme the lexer appends exactly one token:
\* of the keyword's kind when the lexeme is in the keyword table, an
\* IDENTIFIER otherwise, and in both cases with the lexeme as its value.
C11_KeywordOrIdentifier ==
    [][AtIdentifier =>
          /\ Len(tokens') = Len(tokens) + 1
          /\ Last(tokens').kind = KeywordOrIdentifier(IdentLexeme(Rest))
          /\ Last(tokens').value = IdentLexeme(Rest)]_vars

\* the lexer stands at a numeric lexeme: a digit run that starts with a
\* non-zero digit, or a `0` that no digit follows
AtNumber ==
    /\ pc = "loop"
    /\ offset < Len(buf)
    /\ \/ buf[offset + 1] \in DIGIT_NON_ZERO
       \/ buf[offset + 1] = "0" /\ ~isDigit(CharAt(buf, offset + 1))

\* a `.` and a digit follow the digit run that starts s
HasFraction(s) ==
    LET n == RunLen(s, isDigit)
    IN  n + 2 <= Len(s) /\ s[n + 1] = "." /\ isDigit(s[n + 2])

\* C12: at a numeric lexeme the lexer appends exactly one token: a FLOAT_LIT
\* when a `.` and a digit follow the digit run, an INTEGER otherwise; a bare
\* `0` is an INTEGER.
C12_OneNumericToken ==
    [][AtNumber =>
          /\ Len(tokens') = Len(tokens) + 1
          /\ Last(tokens').kind = IF HasFraction(Rest) THEN "FLOAT_LIT" ELSE "INTEGER"]_vars

\* C13: at the empty string literal `""` the lexer appends exactly one token,
\* a STRING whose value is empty, and consumes the two quotes.
C13_EmptyStringLiteral ==
    [][(pc = "loop" /\ offset <= Len(buf) /\ IsPrefix(<<"\"", "\"">>, Rest)) =>
          /\ Len(tokens') = Len(tokens) + 1
          /\ Last(tokens').kind = "STRING"
          /\ Last(tokens').value = <<>>
          /\ offset' = offset + 2]_vars

\* the index after the single-line comment that starts at b[i]
LineEnd(b, i) ==
    LET nl == {j \in i..Len(b) : b[j] = "\n"}
    IN  IF nl = {} THEN Len(b) + 1 ELSE (CHOOSE j \in nl : \A k \in nl : j <= k) + 1

\* b from index i on is whitespace, single-line comments and multi-line
\* comments closed by the first `*/` after their opener
RECURSIVE TriviaFrom(_, _)
TriviaFrom(b, i) ==
    IF i > Len(b) THEN TRUE
    ELSE IF b[i] \in {" ", "\t", "\r", "\n"} THEN TriviaFrom(b, i + 1)
    ELSE IF b[i] = "/" /\ CharAt(b, i) = "/" THEN TriviaFrom(b, LineEnd(b, i + 2))
    ELSE IF b[i] = "/" /\ CharAt(b, i) = "*"
    THEN LET closers == {j \in (i + 2)..(Len(b) - 1) : b[j] = "*" /\ b[j + 1] = "/"}
         IN  /\ closers # {}
             /\ TriviaFrom(b, (CHOOSE j \in closers : \A k \in closers : j <= k) + 2)
    ELSE FALSE

IsTrivia(b) == TriviaFrom(b, 1)

\* C14: the token sequence of an empty buffer, and of a buffer of whitespace,
\* single-line comments and terminated multi-line comments only, is [EOF].
C14_TriviaGivesEOF ==
    (pc = "done" /\ IsTrivia(buf)) => Kinds(tokens) = <<"TOK_EOF">>

\* a token without its offset
Located(t) == [kind |-> t.kind, value |-> t.value, lineno |-> t.lineno, colno |-> t.colno]

WithoutBOM(b) == SubSeq(b, 4, Len(b))

\* C15: a buffer that starts with the BOM is lexed to the token sequence
\* (kinds, values, lines and columns) of the buffer without the BOM, and the
\* lexer returns on the one exactly when it returns on the other.
C15_BOMIsTransparent ==
    (HasBOM(buf) /\ pc \in {"done", "hang"}) =>
        \E stray \in StrayChars :
            LET plain == lexer_lex(WithoutBOM(buf), stray)
            IN  /\ plain.pc = pc
                /\ Len(plain.toks) = Len(tokens)
                /\ \A i \in DOMAIN tokens : Located(plain.toks[i]) = Located(tokens[i])

-----------------------------------------------------------------------------
(* Properties of the parser: declarations and statements *)

Called(fn) == ppc # "ready" /\ call.fn = fn

VariadicParams(params) == {i \in DOMAIN params : params[i].is_var_args}

VariadicNotLast ==
    Panic("ErrorParseError", "Cannot have multiple variadic arguments in function prototype")

MissingReturnType == Panic("ErrorParseError", "expected return type; found ...")

\* C17: a FuncPrototype has is_var_args exactly when one of its parameters
\* is variadic, and then only the last one is; a prototype with no variadic
\* parameter is accepted with is_var_args false, whatever the number of its
\* parameters, and one with a variadic parameter that is not the last is
\* rejected with the variadic-not-last error (prototypes whose return type
\* the parser has read).
C17_VarArgsIffLastVariadic ==
    Called("ast_parse_func_prototype") =>
        /\ (ppc = "returned" /\ result # Null) =>
              /\ result.is_var_args <=> VariadicParams(result.params) # {}
              /\ VariadicParams(result.params) \subseteq {Len(result.params)}
        /\ \A shape \in ParamShapes, arrow \in BOOLEAN :
              ( /\ toklist = ProtoTokens(TRUE, shape, arrow, TRUE)
                /\ ~(ppc = "failed" /\ result = MissingReturnType) ) =>
                 IF \E i \in 1..(Len(shape) - 1) : shape[i]
                 THEN ppc = "failed" /\ result = VariadicNotLast
                 ELSE /\ ppc = "returned"
                      /\ result.is_var_args = (\E i \in DOMAIN shape : shape[i])

ConflictingQualifiers ==
    Panic("ErrorParseError", "Cannot decorate a variable as both mutable and const")

\* C18: a variable declaration with both `mutable` and `const`, in either
\* order, is rejected with the conflicting-qualifiers error; one with at
\* most one of them is not rejected with that error.
C18_ConflictingQualifiers ==
    Called("ast_parse_var_decl") =>
        \A export, typed \in BOOLEAN, qual \in Qualifiers,
           init \in Initializers \ {<<"EQUALS">>} :
            toklist = VarDeclTokens(export, qual, typed, TRUE, init, TRUE) =>
                IF Len(qual) = 2
                THEN ppc = "failed" /\ result = ConflictingQualifiers
                ELSE ~(ppc = "failed" /\ result = ConflictingQualifiers)

\* the prototypes of the grammar: only the last parameter may be variadic
GrammarShapes == {shape \in ParamShapes : \A i \in 1..(Len(shape) - 1) : ~shape[i]}

\* C19: `func` Identifier `(` ParamList? `)` `->` TypeExpr parses to a
\* FuncPrototype with the name, the parameters in source order and the
\* return type, all tokens consumed; without a return type it is an error.
C19_FuncPrototypeWithArrow ==
    Called("ast_parse_func_prototype") =>
        \A shape \in GrammarShapes :
            /\ toklist = ProtoTokens(TRUE, shape, TRUE, TRUE) =>
                  /\ ppc = "returned"
                  /\ result.kind = "AstNodeKindFuncPrototype"
                  /\ result.name = 1
                  /\ result.return_type = Identifier
                  /\ toklist[curr_tok + 1] = "TOK_EOF"
                  /\ Len(result.params) = Len(shape)
                  /\ \A i \in DOMAIN shape :
                        /\ result.params[i].kind = "AstNodeKindParamDecl"
                        /\ result.params[i].is_var_args = shape[i]
                        /\ result.params[i].type_expr = Identifier
                        /\ i > 1 => result.params[i - 1].name < result.params[i].name
            /\ \A arrow \in BOOLEAN :
                  toklist = ProtoTokens(TRUE, shape, arrow, FALSE) => ppc = "failed"

\* C20: `export`? (`mutable`|`const`)? TypeExpr? Identifier (`=` Expr)? `;`
\* parses to a VarDecl with the name, the qualifier flags, the type when one
\* is written and the initializer when one is written, and with none where
\* none is written.
C20_VarDeclRecordsItsParts ==
    Called("ast_parse_var_decl") =>
        \A export, typed \in BOOLEAN, qual \in {<<>>, <<"MUTABLE">>, <<"CONST">>},
           init \in Initializers \ {<<"EQUALS">>} :
            toklist = VarDeclTokens(export, qual, typed, TRUE, init, TRUE) =>
                /\ ppc = "returned"
                /\ result.kind = "AstNodeKindVarDecl"
                /\ result.name = Len(Opt(export, <<"EXPORT">>) \o qual
                                     \o Opt(typed, <<"IDENTIFIER">>))
                /\ result.is_export = export
                /\ result.is_mutable = (qual = <<"MUTABLE">>)
                /\ result.is_const = (qual = <<"CONST">>)
                /\ result.type_expr = IF typed THEN Identifier ELSE Null
                /\ result.expr = IF init = <<>> THEN Null ELSE OperandNode(init[2])

-----------------------------------------------------------------------------
(* Properties of the cursor primitives *)

\* C21: a call of parser_chomp_if(kind) with the current token of that kind
\* returns that token and moves the cursor by exactly one; with a current
\* token of another kind it returns null and leaves the cursor where it was;
\* in both cases the token list is the same after the call.
C21_ChompIf ==
    [][call'.fn = "parser_chomp_if" =>
          /\ IF toklist[curr_tok + 1] = call'.tokenkind
             THEN /\ result' = [kind |-> "Token", tok |-> curr_tok]
                  /\ curr_tok' = curr_tok + 1
             ELSE /\ result' = Null
                  /\ curr_tok' = curr_tok
          /\ toklist' = toklist]_vars

\* parser_chomp_if has returned a token after the start of the list, and
\* in another state has returned null there
C21_Witness ==
    /\ ppc = "returned"
    /\ call.fn = "parser_chomp_if"
    /\ result # Null
    /\ curr_tok >= 2
    /\ toklist[curr_tok] = call.tokenkind

-----------------------------------------------------------------------------
(* Termination *)

\* C22: a call of an expression tier function on a token list that ends in
\* EOF comes to an end: it returns, and is never left repeating the same
\* calls at the same token.
C22_ExpressionParsingTerminates ==
    (ppc # "ready" /\ call.fn \in TierFunctions) => ppc = "returned"

\* lexer_lex runs on the calling thread with nothing to wait for: whenever
\* it has a step to take, it takes it
LiveSpec == Init /\ [][Next]_vars /\ WF_vars(Next)

\* C23: lexer_lex on a finite buffer comes to its end: the EOF token is
\* appended and the function returns, also when a string literal is never
\* closed or holds a backslash.
C23_LexerTerminates == <>(pc = "done")

-----------------------------------------------------------------------------
(* Characters consumed *)

\* the lexer stands at the first digit of a digit run
AtDigitRun ==
    /\ pc = "loop"
    /\ offset < Len(buf)
    /\ buf[offset + 1] \in DIGIT_NON_ZERO

AtHash ==
    /\ pc = "loop"
    /\ offset < Len(buf)
    /\ buf[offset + 1] = "#"

\* the indices in s of the `*` of the closers `*/` of a comment opened at s[1]
Closers(s) == {j \in 3..(Len(s) - 1) : s[j] = "*" /\ s[j + 1] = "/"}

\* the lexer stands at the opener of a multi-line comment that is closed
AtMlComment ==
    /\ pc = "loop"
    /\ offset < Len(buf)
    /\ IsPrefix(<<"/", "*">>, Rest)
    /\ Closers(Rest) # {}

\* the length of the multi-line comment that starts s, from its opener
\* through its first closer
MlCommentLen(s) == (CHOOSE j \in Closers(s) : \A k \in Closers(s) : j <= k) + 1

\* the number of characters of the construct the lexer stands at
ConstructLen ==
    CASE AtIdentifier -> RunLen(Rest, IsAlnum)
      [] AtDigitRun -> RunLen(Rest, isDigit)
      [] AtHash -> 1
      [] AtMlComment -> MlCommentLen(Rest)

\* C24: the step the lexer takes at an identifier, a digit run, a `#` or a
\* multi-line comment consumes the characters of that construct and no more:
\* scanning resumes at the character that follows it.
C24_NoCharacterDropped ==
    [][(AtIdentifier \/ AtDigitRun \/ AtHash \/ AtMlComment) =>
          offset' = offset + ConstructLen]_vars

-----------------------------------------------------------------------------
(* Properties of the parser: blocks *)

\* C25: ast_parse_block on `{` s1 ... sn `}` returns a Block whose
\* statements are the nodes of s1 ... sn in that order, each parsed by its
\* own production, with the closing brace consumed; the empty block gives a
\* Block with no statements.
C25_BlockHoldsItsStatements ==
    \A stmts \in SeqsUpTo(StatementShapes, MaxStmts) :
        (Called("ast_parse_block") /\ toklist = BlockTokens(stmts)) =>
            /\ ppc = "returned"
            /\ result.kind = "AstNodeKindBlock"
            /\ Len(result.statements) = Len(stmts)
            /\ \A i \in DOMAIN stmts : result.statements[i].kind = stmts[i][2]
            /\ curr_tok = Len(toklist) - 1

\* C26: a parsing function that returns null has consumed no token: the
\* cursor is where it was when the function was called, at the first token.
\* So ast_parse_block_label on an identifier that no colon follows returns
\* null with the identifier still the current token.
C26_NullConsumesNothing ==
    (ppc = "returned" /\ result = Null) => curr_tok = 0

-----------------------------------------------------------------------------
(* Properties of the token storage *)

\* C27: the capacity the lexer records never exceeds the slots its last
\* calloc or realloc obtained, and every token appended was written to one
\* of those slots: the number of tokens never exceeds them either.
C27_AppendInsideStorage ==
    /\ tokenList_cap <= tokenList_slots
    /\ Len(tokens) <= tokenList_slots

====
